---- MODULE Spec2Model ----
(***************************************************************************)
(* The waveguide mode solver (tidy3d/plugins/mode/solver.py) and the       *)
(* surface-current extractor of the near-field to far-field projector      *)
(* (tidy3d/plugins/near2far/near2far.py) as state machines.                *)
(*                                                                         *)
(* One call of compute_modes is a pipeline of steps; pc is the position in *)
(* the function body.  Arrays are functions from index tuples to values,   *)
(* so that ravel, slicing and reshape are computed and not assumed.        *)
(* Complex numbers are pairs <<re, im>> of integers.  The sparse           *)
(* eigensolver is an oracle: eigs holds what spl.eigs returns.             *)
(***************************************************************************)
EXTENDS Integers, Sequences, FiniteSets

VARIABLES
    pc,          \* position in compute_modes
    eps_cross,   \* argument: [kind, items]
    coords,      \* argument: <<coords[0].size, coords[1].size>>
    symmetry,    \* argument: <<sx, sy>>, each in {-1, 0, 1}
    mode_spec,   \* argument: [sort_by, tilt, bend, target_neff]
    eigs,        \* what spl.eigs returns for this call: Seq of [val, prof]
    eps_xyz,     \* eps_xx, eps_yy, eps_zz after unpacking
    Nx, Ny,      \* grid dimensions read from eps_xx.shape
    eps_tensor,  \* diagonal of the (3, 3, N) permittivity tensor
    offd,        \* some off-diagonal tensor entry exceeds 1e-6
    dmin_pmc,    \* <<pmc at xmin, pmc at ymin>>
    dmin_pml,    \* <<pml at xmin, pml at ymin>>
    target_neff_p, \* the eigensolver's guess, held as its square <<num, den>>
    solver,      \* which solver solver_em dispatched to
    E, H,        \* solver-coordinate fields, one column per mode
    neff, keff,  \* per-mode effective index parts
    fields,      \* returned fields, indexed (mode, E/H, component, i, j)
    n_complex,   \* returned neff + 1j * keff
    err,         \* the exception raised, "none" if none
    err_values,  \* the run-time values formatted into the exception's message
    caller_writes, \* the caller's arguments the call has stored into so far
    surface,     \* Near2FarSurface: [axis, normal_dir]
    field_data,  \* FieldData.data_dict of the surface's monitor
    currents,    \* data_dict returned by _fields_to_currents
    n2f_pc,      \* position in the surface-current extraction
    monitor,     \* argument of Near2FarSurface: [type, name, size]
    normal_dir,  \* argument of Near2FarSurface: "+" or "-"
    surf_pc,     \* position in the construction of a Near2FarSurface
    n2f_err,     \* the exception raised by the near2far plugin, "none" if none
    n2f_err_values, \* the run-time values formatted into its message
    monitors,    \* argument of from_near_field_monitors: the field monitors
    normal_dirs, \* argument of from_near_field_monitors: their directions
    sim_data,    \* sim_data.monitor_data: name -> [present, data]
    surfaces,    \* Near2Far.surfaces: [monitor, normal_dir, axis] each
    origin,      \* Near2Far.origin: [given, v]
    theta, phi,  \* arguments of radiation_vectors: [kind, vals]
    cache,       \* the cached value of Near2Far.currents: [set, val]
    calls,       \* invocations of compute_surface_currents so far, per surface
    n_ops,       \* accesses of currents and calls of radiation_vectors so far
    got,         \* outcome of the latest access of currents by the caller
    rv_pc,       \* life of the Near2Far and position in radiation_vectors
    idx_f, idx_s, \* position in the loops over frequencies and surfaces
    rad,         \* N_theta, N_phi, L_theta, L_phi being accumulated
    n2f_data,    \* the Near2FarData.data_dict returned
    rs_args,     \* arguments of _resample_surface_currents
    colocation_points, \* the three entries handed to currents.colocate
    rs_pc,       \* position in _resample_surface_currents
    rs_err,      \* the exception it raised, "none" if none
    ig,          \* arguments of _radiation_vectors_for_surface, statement by statement
    ig_pc,       \* position in it: "idle", "loop" or "returned"
    phase,       \* the list phase = [None] * 3 shared by the theta iterations
    JM,          \* the arrays J and M
    written,     \* how many times each entry of J and M was stored to
    iters,       \* the running calls of integrate_for_one_theta, one per worker
    todo         \* the theta indices not yet started, in processing order

mvars == <<pc, eps_cross, coords, symmetry, mode_spec, eigs, eps_xyz, Nx, Ny,
           eps_tensor, offd, dmin_pmc, dmin_pml, target_neff_p, solver, E, H,
           neff, keff, fields, n_complex, err, err_values, caller_writes>>
nvars == <<surface, field_data, currents, n2f_pc>>
svars == <<monitor, normal_dir, surf_pc>>
avars == <<monitors, normal_dirs, sim_data, theta, phi>>
pvars == <<surfaces, origin, cache, calls, n_ops, got, rv_pc, idx_f, idx_s, rad,
           n2f_data>>
rvars == <<rs_args, colocation_points, rs_pc, rs_err>>
ivars == <<ig, ig_pc, phase, JM, written, iters, todo>>
yvars == <<rvars, ivars>>
xvars == <<svars, n2f_err, n2f_err_values, avars, pvars, yvars>>
vars == <<mvars, nvars, xvars>>

(***************************************************************************)
(* Bounds of the model.                                                    *)
(***************************************************************************)
MaxN == 3        \* largest extent of an array axis
MaxModes == 2    \* largest number of eigenpairs the eigensolver returns
MaxField == 1    \* monitored field values range over -MaxField..MaxField

\* pec_val is -1e11; TLC's integers are 32 bits wide, and the model only needs a
\* negative value no physical permittivity takes.
PEC_VAL == -1000000000

(***************************************************************************)
(* numpy arrays: [shape |-> <<n0, ...>>, at |-> [index tuple |-> value]].  *)
(***************************************************************************)
RECURSIVE IdxSet(_)
IdxSet(shape) ==
    IF shape = <<>> THEN {<<>>}
    ELSE {<<i>> \o t : i \in 0..(shape[1] - 1), t \in IdxSet(Tail(shape))}

RECURSIVE Prod(_)
Prod(shape) == IF shape = <<>> THEN 1 ELSE shape[1] * Prod(Tail(shape))

ArraySize(a) == Prod(a.shape)

\* Iterating an ndarray yields its sub-arrays along axis 0.
SubArray(a, r) ==
    [shape |-> Tail(a.shape),
     at |-> [ix \in IdxSet(Tail(a.shape)) |-> a.at[<<r>> \o ix]]]

ArrayItems(a) == [r \in 1..a.shape[1] |-> SubArray(a, r - 1)]

\* The permittivity of component d at cell (i, j): positive, and distinct for
\* distinct (d, i, j), so that a value identifies the cell it came from.
CellEps(d, i, j) == 1 + 100 * d + 10 * i + j

Array2D(d, nx, ny) ==
    [shape |-> <<nx, ny>>,
     at |-> [ix \in IdxSet(<<nx, ny>>) |-> CellEps(d, ix[1], ix[2])]]

Array3D(nx, ny) ==
    [shape |-> <<3, nx, ny>>,
     at |-> [ix \in IdxSet(<<3, nx, ny>>) |-> CellEps(ix[1], ix[2], ix[3])]]

Shapes2D == {<<nx, ny>> : nx \in 1..MaxN, ny \in 1..MaxN}

(***************************************************************************)
(* Arguments of compute_modes.                                             *)
(***************************************************************************)
NdArray(a) == [kind |-> "ndarray", items |-> <<a>>]
TupleOf(seq) == [kind |-> "tuple", items |-> seq]

\* A single 2D array, a (3, Nx, Ny) array, a 3-tuple of 2D arrays of any
\* shapes, and a 2-tuple.
EpsInputsAll ==
    {NdArray(Array2D(0, s[1], s[2])) : s \in Shapes2D}
    \cup {NdArray(Array3D(s[1], s[2])) : s \in Shapes2D}
    \cup {TupleOf(<<Array2D(0, s1[1], s1[2]), Array2D(1, s2[1], s2[2]),
                    Array2D(2, s3[1], s3[2])>>) :
            s1 \in Shapes2D, s2 \in Shapes2D, s3 \in Shapes2D}
    \cup {TupleOf(<<Array2D(0, s[1], s[2]), Array2D(1, s[1], s[2])>>) :
            s \in Shapes2D}

\* 3-tuples of 2D arrays of one shape.
EpsInputsMatching ==
    {TupleOf(<<Array2D(0, s[1], s[2]), Array2D(1, s[1], s[2]),
               Array2D(2, s[1], s[2])>>) : s \in Shapes2D}

CoordSizes == {<<a, b>> : a \in 1..(MaxN + 2), b \in 1..(MaxN + 2)}

Symmetries == {<<sx, sy>> : sx \in {-1, 0, 1}, sy \in {-1, 0, 1}}

SortKeys == {"largest_neff", "te_fraction", "tm_fraction"}

\* mode_spec.target_neff: None (given is false), or a given effective index
NoTarget == [given |-> FALSE, v |-> 0]
GivenTarget == [given |-> TRUE, v |-> 2]
TargetNeffs == {NoTarget, GivenTarget}

\* tilt: angle_theta > 0; bend: bend_radius is not None.
ModeSpecs ==
    [sort_by : SortKeys, tilt : BOOLEAN, bend : BOOLEAN, target_neff : TargetNeffs]

(***************************************************************************)
(* compute_modes, lines 53-79: unpacking, the coords check, the tensors.   *)
(***************************************************************************)
\* eps_xx, eps_yy, eps_zz = eps_cross / [np.copy(e) for e in eps_cross]
Unpacked(ec) ==
    IF ec.kind = "ndarray" THEN ArrayItems(ec.items[1]) ELSE ec.items

\* The unpacking needs exactly three items; a tuple of another length raises.
UnpackOk(ec) == Len(Unpacked(ec)) = 3

\* Nx, Ny = eps_xx.shape
ShapeOk(comps) == Len(comps[1].shape) = 2

CoordsMismatchOneAxis(c, nx, ny) == c[1] # nx + 1

\* coords[0].size != Nx + 1 or coords[1].size != Ny + 1
CoordsMismatch(c, nx, ny) == c[1] # nx + 1 \/ c[2] # ny + 1

RavelIndexF(ix, shape) == ix[2] * shape[1] + ix[1]

\* Position of element ix of a 2D array in its C-order ravel.
RavelIndex(ix, shape) == ix[1] * shape[2] + ix[2]

\* eps.ravel()
Ravel(a) ==
    [p \in 0..(ArraySize(a) - 1) |->
        a.at[CHOOSE ix \in IdxSet(a.shape) : RavelIndex(ix, a.shape) = p]]

\* eps_tensor[dim, dim, :] = flat broadcasts a length-1 flat and otherwise
\* needs length N.
AssignOk(flat, n) ==
    LET len == Cardinality(DOMAIN flat) IN len = n \/ len = 1

Assigned(flat, n) ==
    [p \in 0..(n - 1) |->
        [val |-> IF Cardinality(DOMAIN flat) = n THEN flat[p] ELSE flat[0],
         jac |-> "id"]]

\* raise with a message built from the values vals
RaiseWith(e, vals) ==
    /\ pc' = "raised"
    /\ err' = e
    /\ err_values' = vals

\* raise with a literal message (or none)
Raise(e) == RaiseWith(e, {})

\* The caller's argument whose memory the local array `name` shares, "own" for
\* memory allocated by the call: eps_xx, eps_yy, eps_zz are views of an
\* ndarray eps_cross and np.copy's of the items of a tuple; new_coords holds
\* np.copy's; the tensors and Jacobians come from np.zeros, np.copy, einsum.
EpsNames == {"eps_xx", "eps_yy", "eps_zz"}

OwnerWithoutCopies(name, ec) ==
    IF name \in EpsNames THEN "eps_cross"
    ELSE IF name = "new_coords" THEN "coords" ELSE "own"

Owner(name, ec) ==
    IF name \in EpsNames /\ ec.kind = "ndarray" THEN "eps_cross" ELSE "own"

\* The local arrays stored into by eps_tensor[dim, dim, :] = ... and
\* mu_tensor[dim, dim, :] = 1.0
TensorStores == {"eps_tensor", "mu_tensor"}

\* ... by the transforms, which may work on their argument new_coords in
\* place, and by eps_tensor /= jac_e_det, mu_tensor /= jac_h_det
TransformStores(ms) ==
    {"eps_tensor", "mu_tensor"}
    \cup (IF ms.bend \/ ms.tilt THEN {"new_coords", "jac_e", "jac_h"} ELSE {})

PecStoresUnpacked == {"eps_xx", "eps_yy", "eps_zz"}

\* ... by eps_tensor[d, d, rows] = pec_val
PecStores == {"eps_tensor"}

\* The caller's arguments stored into once the local arrays `stores` are.
Written(w, stores, ec) == w \cup ({Owner(b, ec) : b \in stores} \ {"own"})

UnpackEps ==
    /\ pc = "start"
    /\ IF ~UnpackOk(eps_cross)
         THEN Raise("ValueError: eps_cross") /\ UNCHANGED <<eps_xyz, Nx, Ny>>
       ELSE IF ~ShapeOk(Unpacked(eps_cross))
         THEN Raise("ValueError: eps_xx.shape") /\ UNCHANGED <<eps_xyz, Nx, Ny>>
       ELSE /\ eps_xyz' = Unpacked(eps_cross)
            /\ Nx' = Unpacked(eps_cross)[1].shape[1]
            /\ Ny' = Unpacked(eps_cross)[1].shape[2]
            /\ pc' = "unpacked"
            /\ UNCHANGED <<err, err_values>>
    /\ UNCHANGED <<caller_writes, eps_cross, coords, symmetry, mode_spec, target_neff_p, eigs, eps_tensor,
                   offd, dmin_pmc, dmin_pml, solver, E, H, neff, keff, fields,
                   n_complex, nvars,
                   xvars>>

CheckCoords ==
    /\ pc = "unpacked"
    /\ IF CoordsMismatch(coords, Nx, Ny)
         THEN Raise("ValueError: coords")
         ELSE pc' = "coords_ok" /\ UNCHANGED <<err, err_values>>
    /\ UNCHANGED <<caller_writes, eps_cross, coords, symmetry, mode_spec, target_neff_p, eigs, eps_xyz, Nx,
                   Ny, eps_tensor, offd, dmin_pmc, dmin_pml, solver, E, H,
                   neff, keff, fields, n_complex, nvars,
                   xvars>>

BuildTensors ==
    /\ pc = "coords_ok"
    /\ IF \E d \in 1..3 : ~AssignOk(Ravel(eps_xyz[d]), Nx * Ny)
         THEN Raise("ValueError: broadcast") /\ UNCHANGED eps_tensor
         ELSE /\ eps_tensor' =
                    [d \in 0..2 |-> Assigned(Ravel(eps_xyz[d + 1]), Nx * Ny)]
              /\ pc' = "tensors"
              /\ UNCHANGED <<err, err_values>>
    /\ caller_writes' = Written(caller_writes, TensorStores, eps_cross)
    /\ UNCHANGED <<eps_cross, coords, symmetry, mode_spec, target_neff_p, eigs, eps_xyz, Nx,
                   Ny, offd, dmin_pmc, dmin_pml, solver, E, H, neff, keff,
                   fields, n_complex, nvars,
                   xvars>>

(***************************************************************************)
(* compute_modes, lines 85-153: coordinate transforms, the PEC walls at    *)
(* xmin and ymin, the derivative and PML matrices.                         *)
(***************************************************************************)
\* The Jacobian applied to the tensors: radial_transform when bend_radius is
\* not None, then angled_transform when angle_theta > 0.
JacOf(ms) ==
    IF ms.bend /\ ms.tilt THEN "angled.radial"
    ELSE IF ms.tilt THEN "angled"
    ELSE IF ms.bend THEN "radial"
    ELSE "id"

\* eps' = J eps J^T / det(J), point by point: the entry of row p comes from
\* the entry of row p.
TransformedTensor(t, ms) ==
    [d \in DOMAIN t |-> [p \in DOMAIN t[d] |-> [t[d][p] EXCEPT !.jac = JacOf(ms)]]]

\* The angled Jacobian is dense, the radial one diagonal.
OffDiagonal(ms) == ms.tilt

Transform ==
    /\ pc = "tensors"
    /\ eps_tensor' = TransformedTensor(eps_tensor, mode_spec)
    /\ offd' = OffDiagonal(mode_spec)
    /\ pc' = "transformed"
    /\ caller_writes' = Written(caller_writes, TransformStores(mode_spec), eps_cross)
    /\ UNCHANGED <<eps_cross, coords, symmetry, mode_spec, target_neff_p, eigs, eps_xyz, Nx,
                   Ny, dmin_pmc, dmin_pml, solver, E, H, neff, keff, fields,
                   n_complex, err, err_values, nvars, xvars>>

PecEntry == [val |-> PEC_VAL, jac |-> "id"]

\* The rows a[:n] of a length-len vector.
SliceHead(n, len) == {p \in 0..(len - 1) : p < n}

\* The rows a[::n] of a length-len vector.
SliceStep(n, len) == {p \in 0..(len - 1) : p % n = 0}

\* t[d, d, rows] = pec_val for each d in ds
WithPec(t, ds, rows) ==
    [d \in DOMAIN t |->
        [p \in DOMAIN t[d] |->
            IF d \in ds /\ p \in rows THEN PecEntry ELSE t[d][p]]]

\* The (row, column) positions of the tensor a boundary step writes pec_val to.
PecXminEntriesCoupled == {<<1, 2>>, <<2, 2>>}

\* eps_tensor[1, 1, :Ny], eps_tensor[2, 2, :Ny]
PecXminEntries == {<<1, 1>>, <<2, 2>>}

\* eps_tensor[0, 0, ::Ny], eps_tensor[2, 2, ::Ny]
PecYminEntries == {<<0, 0>>, <<2, 2>>}

\* The diagonal components among the positions written.
Diagonals(entries) == {e[1] : e \in {x \in entries : x[1] = x[2]}}

\* Whether some off-diagonal entry exceeds 1e-6 after pec_val was written
\* (applied) to the positions entries: |pec_val| > 1e-6.
OffdAfterPec(o, entries, applied) ==
    o \/ (applied /\ \E e \in entries : e[1] # e[2])

PecXminFirstNx(t, sym, nx, ny) ==
    IF sym[1] # 1 THEN WithPec(t, Diagonals(PecXminEntries), SliceHead(nx, nx * ny)) ELSE t

\* if symmetry[0] != 1: eps_tensor[1, 1, :Ny] = eps_tensor[2, 2, :Ny] = pec_val
PecXmin(t, sym, nx, ny) ==
    IF sym[1] # 1 THEN WithPec(t, Diagonals(PecXminEntries), SliceHead(ny, nx * ny)) ELSE t

PecYminEveryNy(t, sym, nx, ny) ==
    IF sym[2] # 1 THEN WithPec(t, Diagonals(PecYminEntries), SliceStep(ny, nx * ny)) ELSE t

\* if Ny > 1 and symmetry[1] != 1:
\*     eps_tensor[0, 0, ::Ny] = eps_tensor[2, 2, ::Ny] = pec_val
PecYmin(t, sym, nx, ny) ==
    IF ny > 1 /\ sym[2] # 1
    THEN WithPec(t, Diagonals(PecYminEntries), SliceStep(ny, nx * ny)) ELSE t

ImposePECx ==
    /\ pc = "transformed"
    /\ eps_tensor' = PecXmin(eps_tensor, symmetry, Nx, Ny)
    /\ dmin_pmc' = <<symmetry[1] = 1, FALSE>>
    /\ offd' = OffdAfterPec(offd, PecXminEntries, symmetry[1] # 1)
    /\ pc' = "pec_x"
    /\ caller_writes' = Written(caller_writes,
                                IF symmetry[1] # 1 THEN PecStores ELSE {}, eps_cross)
    /\ UNCHANGED <<eps_cross, coords, symmetry, mode_spec, target_neff_p, eigs, eps_xyz, Nx,
                   Ny, dmin_pml, solver, E, H, neff, keff, fields,
                   n_complex, err, err_values, nvars, xvars>>

ImposePECy ==
    /\ pc = "pec_x"
    /\ eps_tensor' = PecYmin(eps_tensor, symmetry, Nx, Ny)
    /\ dmin_pmc' = <<dmin_pmc[1], Ny > 1 /\ symmetry[2] = 1>>
    /\ offd' = OffdAfterPec(offd, PecYminEntries, Ny > 1 /\ symmetry[2] # 1)
    /\ pc' = "pec_y"
    /\ caller_writes' = Written(caller_writes,
                                IF Ny > 1 /\ symmetry[2] # 1 THEN PecStores ELSE {},
                                eps_cross)
    /\ UNCHANGED <<eps_cross, coords, symmetry, mode_spec, target_neff_p, eigs, eps_xyz, Nx,
                   Ny, dmin_pml, solver, E, H, neff, keff, fields,
                   n_complex, err, err_values, nvars, xvars>>

\* np.linalg.norm(kp_to_k) = |cos(angle_theta)| as <<num, den>>: 1 for
\* angle_theta = 0, and angle_theta = pi / 3 stands for the tilted case.
NormKpToK(ms) == IF ms.tilt THEN <<1, 2>> ELSE <<1, 1>>

Abs(x) == IF x < 0 THEN -x ELSE x

SetMax(S) == CHOOSE m \in S : \A x \in S : x <= m

\* np.array(eps_cross) needs the items of a tuple to have one shape.
Stackable(ec) ==
    \A a \in 1..Len(ec.items) : ec.items[a].shape = ec.items[1].shape

\* np.abs(eps_physical) restricted to np.abs(eps_physical) < np.abs(pec_val)
PhysicalValues(ec) ==
    {v \in {Abs(ec.items[a].at[ix]) :
                a \in 1..Len(ec.items), ix \in IdxSet(ec.items[1].shape)} :
        v < Abs(PEC_VAL)}

\* target ** 2: n_max ** 2 = np.max(np.abs(eps_physical)) when target_neff is
\* None, target_neff ** 2 otherwise.
TargetSquared(ec, ms) ==
    IF ~ms.target_neff.given THEN SetMax(PhysicalValues(ec))
    ELSE ms.target_neff.v * ms.target_neff.v

TargetNeffPUnscaled(ec, ms) == <<TargetSquared(ec, ms), 1>>

\* (target / np.linalg.norm(kp_to_k)) ** 2 as <<num, den>>
TargetNeffP(ec, ms) ==
    <<TargetSquared(ec, ms) * NormKpToK(ms)[2] * NormKpToK(ms)[2],
      NormKpToK(ms)[1] * NormKpToK(ms)[1]>>

DminPmlUnlessPec(sym) == <<sym[1] # -1, sym[2] # -1>>

\* dmin_pml = np.array(symmetry) == 0
DminPml(sym) == <<sym[1] = 0, sym[2] = 0>>

\* d_mats, s_mats and their products: the matrices themselves are not part of
\* the state, only the boundary flags they are built with.  Then the initial
\* guess of the eigensolver.
BuildDerivs ==
    /\ pc = "pec_y"
    /\ dmin_pml' = DminPml(symmetry)
    /\ IF ~mode_spec.target_neff.given /\ ~Stackable(eps_cross)
         THEN Raise("ValueError: np.array(eps_cross)") /\ UNCHANGED target_neff_p
         ELSE /\ target_neff_p' = TargetNeffP(eps_cross, mode_spec)
              /\ pc' = "assembled"
              /\ UNCHANGED <<err, err_values>>
    /\ UNCHANGED <<caller_writes, eps_cross, coords, symmetry, mode_spec, eigs, eps_xyz, Nx,
                   Ny, eps_tensor, offd, dmin_pmc, solver, E, H, neff, keff,
                   fields, n_complex, nvars,
                   xvars>>

(***************************************************************************)
(* The eigensolver's answer and the per-mode arrays.  A per-mode array is  *)
(* a sequence of [v, ids]: ids is the set of returned eigenpairs (by their *)
(* position in the solver's answer) the entry was computed from.           *)
(***************************************************************************)
\* Complex effective indices neff + 1j * keff of the eigenpairs on offer.
DiagonalIndices == {<<nr, nk>> : nr \in {0, 1, 2}, nk \in {0, 2}}
TensorialIndices == {<<nr, nk>> : nr \in {-1, 1, 2}, nk \in {0, 1}}

\* solver_diagonal: "The eigenvalues are -(neff + 1j * keff)**2"
DiagonalEigenvalue(n) == <<-(n[1] * n[1] - n[2] * n[2]), -(2 * n[1] * n[2])>>

\* solver_tensorial: "The eigenvalues are 1j * (neff + 1j * keff)"
TensorialEigenvalue(n) == <<-n[2], n[1]>>

EigenvaluesFor(ms) ==
    IF ms.tilt THEN {TensorialEigenvalue(n) : n \in TensorialIndices}
    ELSE {DiagonalEigenvalue(n) : n \in DiagonalIndices}

\* |Ex|^2 and |Ey|^2 of an eigenvector, the same at every grid point.
Profiles == {<<1, 0>>, <<0, 1>>, <<1, 1>>}

SeqsUpTo(S, n) == UNION {[1..m -> S] : m \in 0..n}

EigenAnswers(ms, n) == SeqsUpTo([val : EigenvaluesFor(ms), prof : Profiles], n)

\* arr[inds]
Take(arr, inds) == [k \in 1..Len(inds) |-> arr[inds[k]]]

\* seq[::-1]
Reversed(seq) == [k \in 1..Len(seq) |-> seq[Len(seq) + 1 - k]]

\* Rationals <<num, den>> with den > 0.
RatLess(a, b) == a[1] * b[2] < b[1] * a[2]

\* np.argsort: the indices that sort the keys ascending, equal keys in their
\* original order (numpy sorts arrays this short by insertion).
ArgSort(keys) ==
    CHOOSE inds \in [1..Len(keys) -> 1..Len(keys)] :
        /\ \A a, b \in 1..Len(keys) : a # b => inds[a] # inds[b]
        /\ \A a, b \in 1..Len(keys) :
              a < b => \/ RatLess(keys[inds[a]], keys[inds[b]])
                       \/ /\ ~RatLess(keys[inds[b]], keys[inds[a]])
                          /\ inds[a] < inds[b]

\* np.sqrt on the perfect squares the model's eigenvalues give.
ISqrt(x) == CHOOSE r \in 0..x : r * r <= x /\ (r + 1) * (r + 1) > x

\* neff = np.sqrt(vre / 2 + np.sqrt(vre**2 + vim**2) / 2)
NeffOf(vre, vim) == ISqrt((vre + ISqrt(vre * vre + vim * vim)) \div 2)

\* keff = vim / 2 / (neff + 1e-10); neff is 0 only where vim is 0.
KeffOf(vim, ne) == IF vim = 0 THEN 0 ELSE vim \div (2 * ne)

\* A field column: the rows of the three components for one mode.  a2 is the
\* squared magnitude, kept for Ex and Ey, the only ones the code reads.
Column(ids, n, a2x, a2y) ==
    [ids |-> ids,
     cells |-> [c \in 0..2 |-> [p \in 0..(n - 1) |->
                  [row |-> p, a2 |-> IF c = 0 THEN a2x ELSE IF c = 1 THEN a2y ELSE 0]]]]

(***************************************************************************)
(* solver_em, solver_diagonal, solver_tensorial.                           *)
(***************************************************************************)
Identity(n) == [k \in 1..n |-> k]

\* vre = -np.real(vals); sort_inds = np.argsort(vre)[::-1]
DiagSortInds(ans) ==
    Reversed(ArgSort([k \in 1..Len(ans) |-> <<-ans[k].val[1], 1>>]))

\* The diagonal solver's outputs with vre, vim taken at vinds and the
\* eigenvector columns at cinds.
DiagonalModes(ans, n, vinds, cinds) ==
    LET vre == Take([k \in 1..Len(ans) |-> [v |-> -ans[k].val[1], ids |-> {k}]], vinds)
        vim == Take([k \in 1..Len(ans) |-> [v |-> -ans[k].val[2], ids |-> {k}]], vinds)
        vecs == Take([k \in 1..Len(ans) |-> [v |-> ans[k].prof, ids |-> {k}]], cinds)
        ne == [k \in 1..Len(ans) |->
                 [v |-> NeffOf(vre[k].v, vim[k].v), ids |-> vre[k].ids \cup vim[k].ids]]
        ke == [k \in 1..Len(ans) |->
                 [v |-> KeffOf(vim[k].v, ne[k].v), ids |-> vim[k].ids \cup ne[k].ids]]
        \* Hx, Hy = qmat.dot(vecs) / (1j * neff - keff); Ez comes from Hx, Hy
        hids == [k \in 1..Len(ans) |-> vecs[k].ids \cup ne[k].ids \cup ke[k].ids]
    IN [E |-> [k \in 1..Len(ans) |-> Column(hids[k], n, vecs[k].v[1], vecs[k].v[2])],
        H |-> [k \in 1..Len(ans) |-> Column(hids[k], n, 0, 0)],
        neff |-> ne,
        keff |-> ke]

SolverDiagonalVecsUnsorted(ans, n) ==
    DiagonalModes(ans, n, DiagSortInds(ans), Identity(Len(ans)))

SolverDiagonal(ans, n) ==
    DiagonalModes(ans, n, DiagSortInds(ans), DiagSortInds(ans))

\* neff = np.imag(vals); sort_inds = np.argsort(neff)[::-1]
TensSortInds(ans) ==
    Reversed(ArgSort([k \in 1..Len(ans) |-> <<ans[k].val[2], 1>>]))

TensorialModes(ans, n, vinds, cinds) ==
    LET ne == Take([k \in 1..Len(ans) |-> [v |-> ans[k].val[2], ids |-> {k}]], vinds)
        ke == Take([k \in 1..Len(ans) |-> [v |-> -ans[k].val[1], ids |-> {k}]], vinds)
        vecs == Take([k \in 1..Len(ans) |-> [v |-> ans[k].prof, ids |-> {k}]], cinds)
    IN [E |-> [k \in 1..Len(ans) |-> Column(vecs[k].ids, n, vecs[k].v[1], vecs[k].v[2])],
        H |-> [k \in 1..Len(ans) |-> Column(vecs[k].ids, n, 0, 0)],
        neff |-> ne,
        keff |-> ke]

SolverTensorial(ans, n) ==
    TensorialModes(ans, n, TensSortInds(ans), TensSortInds(ans))

\* The shift handed to spl.eigs as sigma, from the square tp of neff_guess:
\* guess_value=-(neff_guess**2) in solver_diagonal and
\* guess_value=1j * neff_guess in solver_tensorial.
GuessValue(tp, od) ==
    IF od THEN <<0, ISqrt(tp[1] \div tp[2])>> ELSE <<-(tp[1] \div tp[2]), 0>>

\* solver_em: the tensorial solver when an off-diagonal entry exceeds 1e-6.
SolverEm ==
    /\ pc = "assembled"
    /\ IF Len(eigs) = 0
         THEN /\ Raise("RuntimeError: Could not find any eigenmodes")
              /\ solver' = IF offd THEN "tensorial" ELSE "diagonal"
              /\ UNCHANGED <<E, H, neff, keff>>
         ELSE LET out == IF offd THEN SolverTensorial(eigs, Nx * Ny)
                         ELSE SolverDiagonal(eigs, Nx * Ny)
              IN /\ solver' = IF offd THEN "tensorial" ELSE "diagonal"
                 /\ E' = out.E
                 /\ H' = out.H
                 /\ neff' = out.neff
                 /\ keff' = out.keff
                 /\ pc' = "solved"
                 /\ UNCHANGED <<err, err_values>>
    /\ UNCHANGED <<caller_writes, eps_cross, coords, symmetry, mode_spec, target_neff_p, eigs, eps_xyz, Nx,
                   Ny, eps_tensor, offd, dmin_pmc, dmin_pml, fields, n_complex,
                   nvars, xvars>>

(***************************************************************************)
(* compute_modes, lines 168-189: the re-sort and the packaging.            *)
(***************************************************************************)
RECURSIVE SumA2(_, _)
SumA2(rows, n) == IF n = 0 THEN 0 ELSE rows[n - 1].a2 + SumA2(rows, n - 1)

\* np.sum(np.abs(E[c]) ** 2, axis=0) / np.sum(np.abs(E[:2]) ** 2, axis=(0, 1))
Fraction(col, c, n) ==
    <<SumA2(col.cells[c], n), SumA2(col.cells[0], n) + SumA2(col.cells[1], n)>>

SortInt(cols, sort_by, n) ==
    [k \in 1..Len(cols) |->
        Fraction(cols[k], IF sort_by = "te_fraction" THEN 0 ELSE 1, n)]

ReorderIndsAscending(cols, sort_by, n) ==
    IF sort_by = "largest_neff" THEN Identity(Len(cols))
    ELSE ArgSort(SortInt(cols, sort_by, n))

\* sort_inds = np.argsort(sort_int)[::-1]; no reordering for largest_neff.
ReorderInds(cols, sort_by, n) ==
    IF sort_by = "largest_neff" THEN Identity(Len(cols))
    ELSE Reversed(ArgSort(SortInt(cols, sort_by, n)))

Reorder ==
    /\ pc = "solved"
    /\ LET inds == ReorderInds(E, mode_spec.sort_by, Nx * Ny)
       IN /\ E' = Take(E, inds)
          /\ H' = Take(H, inds)
          /\ neff' = Take(neff, inds)
          /\ keff' = Take(keff, inds)
    /\ pc' = "sorted"
    /\ UNCHANGED <<caller_writes, eps_cross, coords, symmetry, mode_spec, target_neff_p, eigs, eps_xyz, Nx,
                   Ny, eps_tensor, offd, dmin_pmc, dmin_pml, solver, fields,
                   n_complex, err, err_values, nvars, xvars>>

ReshapedF(flat, shape) ==
    [ix \in IdxSet(shape) |-> flat[RavelIndexF(ix, shape)]]

\* flat.reshape(shape)
Reshaped(flat, shape) ==
    [ix \in IdxSet(shape) |-> flat[RavelIndex(ix, shape)]]

\* E.reshape((3, Nx, Ny, 1, num_modes)), one mode at a time
ReshapedColumn(col, shape) ==
    [ids |-> col.ids,
     cells |-> [c \in DOMAIN col.cells |-> Reshaped(col.cells[c], shape)]]

\* neff * norm + 1j * keff, the real part as the rational re_num / re_den
Complex(ne, ke, norm) ==
    [re_num |-> ne.v * norm[1], re_den |-> norm[2], im |-> ke.v,
     re_ids |-> ne.ids, im_ids |-> ke.ids]

Package ==
    /\ pc = "sorted"
    /\ fields' = [k \in 1..Len(E) |->
                    [E |-> ReshapedColumn(E[k], <<Nx, Ny>>),
                     H |-> ReshapedColumn(H[k], <<Nx, Ny>>)]]
    /\ n_complex' = [k \in 1..Len(neff) |->
                       Complex(neff[k], keff[k], NormKpToK(mode_spec))]
    /\ pc' = "returned"
    /\ UNCHANGED <<caller_writes, eps_cross, coords, symmetry, mode_spec, target_neff_p, eigs, eps_xyz, Nx,
                   Ny, eps_tensor, offd, dmin_pmc, dmin_pml, solver, E, H,
                   neff, keff, err, err_values, nvars, xvars>>

(***************************************************************************)
(* Near2Far._fields_to_currents.  A data_dict is a function from component *)
(* names <<"E", "x">>, ... to values; a value stands for the component's   *)
(* array at one sample point (the code scales whole arrays by a sign).     *)
(***************************************************************************)
AxisNames == <<"x", "y", "z">>

\* monitor.pop_axis(coord, axis): the normal entry and the two others, in order.
PopAxis(coord, axis) ==
    [normal |-> coord[axis + 1],
     tangent |-> IF axis = 0 THEN <<coord[2], coord[3]>>
                 ELSE IF axis = 1 THEN <<coord[1], coord[3]>>
                 ELSE <<coord[1], coord[2]>>]

SignsIgnoringAxis(surf) ==
    IF surf.normal_dir = "-" THEN <<1, -1>> ELSE <<-1, 1>>

\* signs = [-1, 1], negated for an odd axis, negated for normal_dir "-"
Signs(surf) ==
    LET s0 == <<-1, 1>>
        s1 == IF surf.axis % 2 # 0 THEN <<-s0[1], -s0[2]>> ELSE s0
    IN IF surf.normal_dir = "-" THEN <<-s1[1], -s1[2]>> ELSE s1

DictDel(d, k) == [x \in (DOMAIN d) \ {k} |-> d[x]]

DictPut(d, k, v) == [x \in (DOMAIN d) \cup {k} |-> IF x = k THEN v ELSE d[x]]

\* d[to] = d.pop(from)
DictMove(d, from, to) == DictPut(DictDel(d, from), to, d[from])

FieldsToCurrents(fd, surf) ==
    LET parts == PopAxis(AxisNames, surf.axis)
        cmp_1 == parts.tangent[1]
        cmp_2 == parts.tangent[2]
        signs == Signs(surf)
        d1 == DictMove(fd, <<"H", cmp_1>>, <<"J", cmp_2>>)
        d2 == DictMove(d1, <<"H", cmp_2>>, <<"J", cmp_1>>)
        d3 == DictDel(d2, <<"H", parts.normal>>)
        d4 == DictMove(d3, <<"E", cmp_1>>, <<"M", cmp_2>>)
        d5 == DictMove(d4, <<"E", cmp_2>>, <<"M", cmp_1>>)
        d6 == DictDel(d5, <<"E", parts.normal>>)
        d7 == DictPut(d6, <<"J", cmp_1>>, d6[<<"J", cmp_1>>] * signs[1])
        d8 == DictPut(d7, <<"J", cmp_2>>, d6[<<"J", cmp_2>>] * signs[2])
        d9 == DictPut(d8, <<"M", cmp_1>>, d6[<<"M", cmp_1>>] * signs[2])
    IN DictPut(d9, <<"M", cmp_2>>, d6[<<"M", cmp_2>>] * signs[1])

FieldKeys == {<<f, c>> : f \in {"E", "H"}, c \in {"x", "y", "z"}}

FieldsToCurrentsStep ==
    /\ n2f_pc = "fields"
    /\ currents' = FieldsToCurrents(field_data, surface)
    /\ n2f_pc' = "currents"
    /\ UNCHANGED <<mvars, surface, field_data, xvars>>

(***************************************************************************)
(* Near2FarSurface: the is_plane validator and the axis property.          *)
(***************************************************************************)
MonitorSizes == {<<a, b, c>> : a \in 0..2, b \in 0..2, c \in 0..2}

\* seq.count(x)
Count(seq, x) == Cardinality({i \in DOMAIN seq : seq[i] = x})

\* seq.index(x), counted from 0
IndexOf(seq, x) ==
    (CHOOSE i \in DOMAIN seq :
        seq[i] = x /\ \A j \in DOMAIN seq : seq[j] = x => i <= j) - 1

NotPlaneNoZero(mon) == Count(mon.size, 0) = 0 /\ mon.type = "FieldMonitor"

\* size.count(0.0) != 1 and isinstance(val, FieldMonitor)
NotPlane(mon) == Count(mon.size, 0) # 1 /\ mon.type = "FieldMonitor"

\* Near2FarSurface.axis
Axis(mon) == IndexOf(mon.size, 0)

\* Near2FarSurface(monitor=monitor, normal_dir=normal_dir)
ConstructSurface ==
    /\ surf_pc = "args"
    /\ IF NotPlane(monitor)
         THEN /\ surf_pc' = "raised"
              /\ n2f_err' = "ValidationError: must be planar"
              /\ n2f_err_values' = <<monitor.name, monitor.size>>
              /\ UNCHANGED surface
         ELSE /\ surface' = [axis |-> Axis(monitor), normal_dir |-> normal_dir]
              /\ surf_pc' = "constructed"
              /\ UNCHANGED <<n2f_err, n2f_err_values>>
    /\ UNCHANGED <<mvars, yvars, field_data, currents, n2f_pc, monitor, normal_dir,
                   avars, pvars>>

(***************************************************************************)
(* Near2Far: the monitor data, the surface currents and the radiation      *)
(* vectors of one surface.  A FieldData is [f, coords, at]: the sampled    *)
(* frequencies, the coordinates <<xs, ys, zs>> (one entry along the normal *)
(* of its monitor) and, per frequency index and point <<ix, iy, iz>>, the  *)
(* data_dict of the six components there.  Observation angles are         *)
(* multiples of pi / 2, so that every phase factor exp(-1j * k * d) is an  *)
(* integer power z^d of z = exp(-1j * k); a complex amplitude is then a    *)
(* polynomial in z: a function from the exponents present to their         *)
(* non-zero integer coefficients.                                          *)
(***************************************************************************)
Triples(cs) ==
    {<<ix, iy, iz>> : ix \in 1..Len(cs[1]), iy \in 1..Len(cs[2]),
                      iz \in 1..Len(cs[3])}

\* The data a FieldMonitor records: amp scales each component, the rest makes
\* the samples differ from point to point and from frequency to frequency.
FieldDataOf(freqs, cs, amp) ==
    [f |-> freqs,
     coords |-> cs,
     at |-> [fi \in 1..Len(freqs) |->
               [p \in Triples(cs) |->
                  [key \in FieldKeys |->
                     amp[key] * (freqs[fi] + p[1] + 2 * p[2] + 3 * p[3])]]]]

\* _fields_to_currents on whole arrays: the same renaming and signs at every
\* frequency and point
FieldsToCurrentsData(fd, surf) ==
    [f |-> fd.f,
     coords |-> fd.coords,
     at |-> [fi \in DOMAIN fd.at |->
               [p \in DOMAIN fd.at[fi] |-> FieldsToCurrents(fd.at[fi][p], surf)]]]

\* The index triple of the point (i, j) of the surface, its normal index 1.
OnSurface(axis, i, j) ==
    IF axis = 0 THEN <<1, i, j>> ELSE IF axis = 1 THEN <<i, 1, j>> ELSE <<i, j, 1>>

\* currents.colocate(*colocation_points), resample off: the colocation points
\* are the sample points themselves and the normal coordinate becomes a scalar.
Colocated(cur, surf) ==
    LET uv == PopAxis(<<1, 2, 3>>, surf.axis).tangent
    IN [f |-> cur.f,
        pts |-> cur.coords,
        at |-> [fi \in DOMAIN cur.at |->
                  [q \in {<<i, j>> : i \in 1..Len(cur.coords[uv[1]]),
                                     j \in 1..Len(cur.coords[uv[2]])} |->
                     cur.at[fi][OnSurface(surf.axis, q[1], q[2])]]]]

\* compute_surface_currents, given that the monitor has data
SurfaceCurrents(fd, surf) == Colocated(FieldsToCurrentsData(fd, surf), surf)

Angles == {"0", "pi/2", "pi", "3pi/2"}

Sin(a) == IF a = "pi/2" THEN 1 ELSE IF a = "3pi/2" THEN -1 ELSE 0

Cos(a) == IF a = "0" THEN 1 ELSE IF a = "pi" THEN -1 ELSE 0

RECURSIVE SumFn(_, _)
SumFn(fn, S) ==
    IF S = {} THEN 0
    ELSE LET x == CHOOSE y \in S : TRUE IN fn[x] + SumFn(fn, S \ {x})

\* Polynomials in z, without zero coefficients.
Normal(p) == [m \in {n \in DOMAIN p : p[n] # 0} |-> p[m]]

Coef(p, m) == IF m \in DOMAIN p THEN p[m] ELSE 0

Zero == Normal([m \in {} |-> 0])

PolyAdd(p, q) == Normal([m \in DOMAIN p \cup DOMAIN q |-> Coef(p, m) + Coef(q, m)])

PolyScale(c, p) == Normal([m \in DOMAIN p |-> c * p[m]])

\* p * z^d
PolyShift(p, d) == [m \in {n + d : n \in DOMAIN p} |-> p[m - d]]

\* (sin(theta) cos(phi), sin(theta) sin(phi), cos(theta))
Khat(th, ph) == <<Sin(th) * Cos(ph), Sin(th) * Sin(ph), Cos(th)>>

PtsIgnoringOrigin(cur, org) == cur.pts

\* pts = [currents[name].values - origin for name, origin in zip(...)]
Pts(cur, org) ==
    [a \in 1..3 |-> [i \in 1..Len(cur.pts[a]) |-> cur.pts[a][i] - org[a]]]

\* The exponent d of phase_ij = z^d at the points (i, j) of the surface:
\* phase[idx_u][:, None] * phase[idx_v][None, :] * phase[idx_w]
PhaseIJ(pts, surf, th, ph) ==
    LET idx == PopAxis(<<1, 2, 3>>, surf.axis)
        u == idx.tangent[1]
        v == idx.tangent[2]
        w == idx.normal
    IN [q \in {<<i, j>> : i \in 1..Len(pts[u]), j \in 1..Len(pts[v])} |->
          pts[u][q[1]] * Khat(th, ph)[u] + pts[v][q[2]] * Khat(th, ph)[v]
          + pts[w][1] * Khat(th, ph)[w]]

Integrate2DAbs(vals, e, pu, pv) ==
    LET cells == {<<i, j>> : i \in 1..(Len(pu) - 1), j \in 1..(Len(pv) - 1)}
        corners(c) == {c, <<c[1] + 1, c[2]>>, <<c[1], c[2] + 1>>,
                       <<c[1] + 1, c[2] + 1>>}
    IN Normal([m \in {e[q] : q \in DOMAIN e} |->
          SumFn([c \in cells |->
                   (pu[c[1] + 1] - pu[c[1]]) * (pv[c[2] + 1] - pv[c[2]])
                   * SumFn([q \in corners(c) |->
                              IF e[q] = m THEN Abs(vals[q]) ELSE 0], corners(c))],
                cells)])

\* integrate_2d(values * phase_ij, pts_u, pts_v), times 4: each np.trapz adds
\* (x[i + 1] - x[i]) * (y[i] + y[i + 1]) / 2 over the intervals of its axis.
Integrate2D(vals, e, pu, pv) ==
    LET cells == {<<i, j>> : i \in 1..(Len(pu) - 1), j \in 1..(Len(pv) - 1)}
        corners(c) == {c, <<c[1] + 1, c[2]>>, <<c[1], c[2] + 1>>,
                       <<c[1] + 1, c[2] + 1>>}
    IN Normal([m \in {e[q] : q \in DOMAIN e} |->
          SumFn([c \in cells |->
                   (pu[c[1] + 1] - pu[c[1]]) * (pv[c[2] + 1] - pv[c[2]])
                   * SumFn([q \in corners(c) |->
                              IF e[q] = m THEN vals[q] ELSE 0], corners(c))],
                cells)])

\* J (kind "J") or M (kind "M") at one pair of angles: the components along
\* idx_u and idx_v are integrated, the one along idx_w stays zero.
Integrated(cur, fi, kind, surf, org, th, ph) ==
    LET idx == PopAxis(<<1, 2, 3>>, surf.axis)
        cmp == PopAxis(AxisNames, surf.axis).tangent
        pts == Pts(cur, org)
        e == PhaseIJ(pts, surf, th, ph)
        comp(c) == Integrate2D([q \in DOMAIN cur.at[fi] |-> cur.at[fi][q][<<kind, c>>]],
                               e, pts[idx.tangent[1]], pts[idx.tangent[2]])
    IN [a \in 1..3 |-> IF a = idx.tangent[1] THEN comp(cmp[1])
                       ELSE IF a = idx.tangent[2] THEN comp(cmp[2])
                       ELSE Zero]

\* V[0] * cos_th_cos_phi + V[1] * cos_th_sin_phi - V[2] * sin_theta
ThetaPart(V, th, ph) ==
    PolyAdd(PolyAdd(PolyScale(Cos(th) * Cos(ph), V[1]),
                    PolyScale(Cos(th) * Sin(ph), V[2])),
            PolyScale(-Sin(th), V[3]))

\* -V[0] * sin_phi + V[1] * cos_phi
PhiPart(V, th, ph) ==
    PolyAdd(PolyScale(-Sin(ph), V[1]), PolyScale(Cos(ph), V[2]))

VectorNames == {"Ntheta", "Nphi", "Ltheta", "Lphi"}

\* _radiation_vectors_for_surface past the frequency selection: the four
\* arrays of shape (len(theta), len(phi)), fi the position of the frequency
\* in the currents' f coordinate.
RadiationVectorsForSurface(cur, fi, surf, org, thetas, phis) ==
    [name \in VectorNames |->
       [shape |-> <<Len(thetas), Len(phis)>>,
        at |-> [ix \in IdxSet(<<Len(thetas), Len(phis)>>) |->
                  LET th == thetas[ix[1] + 1]
                      ph == phis[ix[2] + 1]
                      J == Integrated(cur, fi, "J", surf, org, th, ph)
                      M == Integrated(cur, fi, "M", surf, org, th, ph)
                  IN IF name = "Ntheta" THEN ThetaPart(J, th, ph)
                     ELSE IF name = "Nphi" THEN PhiPart(J, th, ph)
                     ELSE IF name = "Ltheta" THEN ThetaPart(M, th, ph)
                     ELSE PhiPart(M, th, ph)]]]

(***************************************************************************)
(* _radiation_vectors_for_surface statement by statement: the calls of     *)
(* integrate_for_one_theta store into J and M and go through the list      *)
(* `phase`, which is created once, outside integrate_for_one_theta.  A     *)
(* worker runs one call at a time; with one worker the calls follow one    *)
(* another, with two they interleave between statements.                   *)
(***************************************************************************)
NoIter == [i_th |-> -1, j_ph |-> 0, pc |-> "idle", phase_ij |-> <<>>, from |-> {}]

\* phase = [None] * 3; `by` is the theta index of the call that stored the entry
NoPhase == [a \in 1..3 |-> [by |-> -1, e |-> "None"]]

Kinds == {"J", "M"}

\* np.zeros((3, len(theta), len(phi))): the index sets of J and M
Entries(thetas, phis) ==
    {<<a, i, j>> : a \in 1..3, i \in 0..(Len(thetas) - 1), j \in 0..(Len(phis) - 1)}

\* pts of the surface of the call
IgPts == Pts(ig.cur, ig.org)

\* idx_w, (idx_u, idx_v) and (cmp_1, cmp_2) of the surface of the call
IgIdx == PopAxis(<<1, 2, 3>>, ig.surf.axis)

IgCmp == PopAxis(AxisNames, ig.surf.axis).tangent

\* The exponents d of the entries z^d of
\* np.exp(propagation_factor * pts[a] * (the a-th component of the direction))
PhaseAlong(a, th, ph) ==
    [i \in 1..Len(IgPts[a]) |-> IgPts[a][i] * Khat(th, ph)[a]]

SlotOfFirstTheta(it) == <<0, it.j_ph>>

\* The [i_th, j_ph] of the stores J[idx_u, i_th, j_ph] = ... of the call it
Slot(it) == <<it.i_th, it.j_ph>>

PhasePcs == <<"phase0", "phase1", "phase2">>

\* The four stores in the order of the code: the array, the axis index and
\* the component name
Stores ==
    [J_u |-> [kind |-> "J", a |-> IgIdx.tangent[1], c |-> IgCmp[1], next |-> "J_v"],
     J_v |-> [kind |-> "J", a |-> IgIdx.tangent[2], c |-> IgCmp[2], next |-> "M_u"],
     M_u |-> [kind |-> "M", a |-> IgIdx.tangent[1], c |-> IgCmp[1], next |-> "M_v"],
     M_v |-> [kind |-> "M", a |-> IgIdx.tangent[2], c |-> IgCmp[2], next |-> "end"]]

\* J = np.zeros(...); M = np.zeros_like(J); phase = [None] * 3; the loop over
\* theta is about to start
IntegratorStart ==
    /\ ig_pc = "args"
    /\ ig_pc' = "loop"
    /\ JM' = [k \in Kinds |-> [x \in Entries(ig.thetas, ig.phis) |-> Zero]]
    /\ written' = [k \in Kinds |-> [x \in Entries(ig.thetas, ig.phis) |-> 0]]
    /\ phase' = NoPhase
    /\ UNCHANGED <<ig, iters, todo, rvars, mvars, nvars, svars, n2f_err, n2f_err_values,
                   avars, pvars>>

\* integrate_for_one_theta(i_th) is called with the next theta index; with
\* no phi the loop over j_ph has no pass and the call is over at once
StartTheta ==
    /\ ig_pc = "loop"
    /\ todo # <<>>
    /\ \E w \in 1..ig.workers :
          /\ iters[w].pc = "idle"
          /\ iters' = [iters EXCEPT ![w] =
                         IF Len(ig.phis) = 0 THEN NoIter
                         ELSE [i_th |-> Head(todo), j_ph |-> 0, pc |-> "phase0",
                               phase_ij |-> <<>>, from |-> {}]]
    /\ todo' = Tail(todo)
    /\ UNCHANGED <<ig, ig_pc, phase, JM, written, rvars, mvars, nvars, svars, n2f_err,
                   n2f_err_values, avars, pvars>>

\* phase[0] = ..., phase[1] = ..., phase[2] = ...: one store into the shared list
StorePhase ==
    /\ ig_pc = "loop"
    /\ \E w \in 1..ig.workers, a \in 1..3 :
          /\ iters[w].pc = PhasePcs[a]
          /\ phase' = [phase EXCEPT ![a] =
                         [by |-> iters[w].i_th,
                          e |-> PhaseAlong(a, ig.thetas[iters[w].i_th + 1],
                                           ig.phis[iters[w].j_ph + 1])]]
          /\ iters' = [iters EXCEPT ![w].pc =
                         IF a < 3 THEN PhasePcs[a + 1] ELSE "phase_ij"]
    /\ UNCHANGED <<ig, ig_pc, JM, written, todo, rvars, mvars, nvars, svars, n2f_err,
                   n2f_err_values, avars, pvars>>

\* phase_ij = phase[idx_u][:, None] * phase[idx_v][None, :] * phase[idx_w],
\* read from the shared list as it is now
ReadPhase ==
    /\ ig_pc = "loop"
    /\ \E w \in 1..ig.workers :
          /\ iters[w].pc = "phase_ij"
          /\ iters' = [iters EXCEPT
                ![w].pc = "J_u",
                ![w].from = {phase[a].by : a \in 1..3},
                ![w].phase_ij =
                    LET u == IgIdx.tangent[1]
                        v == IgIdx.tangent[2]
                        n == IgIdx.normal
                    IN [q \in {<<i, j>> : i \in 1..Len(IgPts[u]), j \in 1..Len(IgPts[v])} |->
                          phase[u].e[q[1]] + phase[v].e[q[2]] + phase[n].e[1]]]
    /\ UNCHANGED <<ig, ig_pc, phase, JM, written, todo, rvars, mvars, nvars, svars,
                   n2f_err, n2f_err_values, avars, pvars>>

\* J[idx_u, i_th, j_ph] = integrate_2d(...), then J[idx_v, ...], M[idx_u, ...]
\* and M[idx_v, ...]; after the last one the next j_ph, or the end of the call
StoreIntegral ==
    /\ ig_pc = "loop"
    /\ \E w \in 1..ig.workers :
          LET it == iters[w]
          IN /\ it.pc \in DOMAIN Stores
             /\ LET st == Stores[it.pc]
                    x == <<st.a, Slot(it)[1], Slot(it)[2]>>
                    val == Integrate2D([q \in DOMAIN ig.cur.at[ig.fi] |->
                                          ig.cur.at[ig.fi][q][<<st.kind, st.c>>]],
                                       it.phase_ij, IgPts[IgIdx.tangent[1]],
                                       IgPts[IgIdx.tangent[2]])
                IN /\ JM' = [JM EXCEPT ![st.kind][x] = val]
                   /\ written' = [written EXCEPT ![st.kind][x] = @ + 1]
                   /\ iters' = [iters EXCEPT ![w] =
                         IF st.next # "end" THEN [it EXCEPT !.pc = st.next]
                         ELSE IF it.j_ph + 1 < Len(ig.phis)
                           THEN [it EXCEPT !.pc = "phase0", !.j_ph = it.j_ph + 1]
                         ELSE NoIter]
    /\ UNCHANGED <<ig, ig_pc, phase, todo, rvars, mvars, nvars, svars, n2f_err,
                   n2f_err_values, avars, pvars>>

\* Every call of integrate_for_one_theta is over: J and M are final
IntegratorReturn ==
    /\ ig_pc = "loop"
    /\ todo = <<>>
    /\ \A w \in 1..ig.workers : iters[w].pc = "idle"
    /\ ig_pc' = "returned"
    /\ UNCHANGED <<ig, phase, JM, written, iters, todo, rvars, mvars, nvars, svars,
                   n2f_err, n2f_err_values, avars, pvars>>

NextIntegrate ==
    \/ IntegratorStart
    \/ StartTheta
    \/ StorePhase
    \/ ReadPhase
    \/ StoreIntegral
    \/ IntegratorReturn

IntegratorIdle ==
    /\ ig = <<>>
    /\ ig_pc = "idle"
    /\ phase = <<>>
    /\ JM = <<>>
    /\ written = <<>>
    /\ iters = <<>>
    /\ todo = <<>>

(***************************************************************************)
(* Near2Far._resample_surface_currents: the colocation points.  Lengths    *)
(* are integers (monitor and simulation sizes even, so that their halves   *)
(* are integers too); a coordinate is a rational <<num, den>>, den > 0.    *)
(***************************************************************************)
\* The speed of light in the model's units, a multiple of every
\* frequency * index_n the model uses, so that wavelengths are integers.
C_0 == 12

Max2(a, b) == IF a >= b THEN a ELSE b

Min2(a, b) == IF a <= b THEN a ELSE b

\* frequency = max(surface.monitor.freqs); wavelength = C_0 / frequency / index_n
Wavelength(freqs, index_n) ==
    (C_0 \div SetMax({freqs[i] : i \in DOMAIN freqs})) \div index_n

\* start = np.maximum(monitor.center - monitor.size / 2, sim.center - sim.size / 2)
Start(mon, sim, a) ==
    Max2(mon.center[a] - mon.size[a] \div 2, sim.center[a] - sim.size[a] \div 2)

\* stop = np.minimum(monitor.center + monitor.size / 2, sim.center + sim.size / 2)
Stop(mon, sim, a) ==
    Min2(mon.center[a] + mon.size[a] \div 2, sim.center[a] + sim.size[a] \div 2)

\* np.ceil(a / b) for b > 0
CeilDiv(a, b) == -((-a) \div b)

NumPtsFloor(ppw, size, wavelength) == (ppw * size) \div wavelength

\* num_pts = int(np.ceil(pts_per_wavelength * size / wavelength))
NumPts(ppw, size, wavelength) == CeilDiv(ppw * size, wavelength)

\* np.linspace(start, stop, num) for num >= 0: empty for 0, start alone for 1,
\* else start + i * (stop - start) / (num - 1), the last point being stop.
Linspace(start, stop, num) ==
    [i \in 1..num |->
        IF num = 1 THEN <<start, 1>>
        ELSE <<start * (num - 1) + (i - 1) * (stop - start), num - 1>>]

\* num_pts along axis a (1, 2 or 3) for the arguments args
NumPtsAlong(args, a) ==
    NumPts(args.pts_per_wavelength,
           Stop(args.monitor, args.simulation, a) - Start(args.monitor, args.simulation, a),
           Wavelength(args.monitor.freqs, args.index_n))

\* The tangential axes of the surface, numbered from 1.
Tangential(axis) ==
    LET uv == PopAxis(<<1, 2, 3>>, axis).tangent IN {uv[1], uv[2]}

ResampleSurfaceCurrents ==
    /\ rs_pc = "args"
    /\ IF rs_args.resample /\ \E a \in Tangential(rs_args.axis) : NumPtsAlong(rs_args, a) < 0
         THEN /\ rs_pc' = "raised"
              /\ rs_err' = "ValueError: Number of samples must be non-negative"
              /\ UNCHANGED colocation_points
         ELSE /\ colocation_points' =
                    [a \in 1..3 |->
                       IF a = rs_args.axis + 1 THEN <<<<rs_args.monitor.center[a], 1>>>>
                       ELSE IF ~rs_args.resample THEN rs_args.at_centers[a]
                       ELSE Linspace(Start(rs_args.monitor, rs_args.simulation, a),
                                     Stop(rs_args.monitor, rs_args.simulation, a),
                                     NumPtsAlong(rs_args, a))]
              /\ rs_pc' = "colocated"
              /\ UNCHANGED rs_err
    /\ UNCHANGED <<rs_args, ivars, mvars, nvars, svars, n2f_err, n2f_err_values, avars,
                   pvars>>

(***************************************************************************)
(* Near2Far: construction, the cached currents property and                *)
(* radiation_vectors, one iteration of its loops at a time.                *)
(***************************************************************************)
MaxOps == 2      \* accesses of currents plus calls of radiation_vectors

Names == {"m1", "m2"}

SetMin(S) == CHOOSE m \in S : \A x \in S : m <= x

\* Near2Far.set_origin: the mean of the surface monitors' centers when origin
\* is None
SetOrigin(org, surfs) ==
    IF org.given THEN org
    ELSE [given |-> TRUE,
          v |-> [a \in 1..3 |->
                   SumFn([i \in 1..Len(surfs) |-> surfs[i].monitor.center[a]],
                         1..Len(surfs)) \div Len(surfs)]]

\* Near2Far.frequencies
Frequencies(surfs) == surfs[1].monitor.freqs

\* from_near_field_monitors: the surfaces, then the Near2Far
FromNearFieldMonitors ==
    /\ rv_pc = "args"
    /\ IF Len(monitors) # Len(normal_dirs)
         THEN /\ rv_pc' = "invalid"
              /\ n2f_err' = "SetupError: Number of monitors"
              /\ n2f_err_values' = <<Len(monitors)>>
              /\ UNCHANGED <<surfaces, origin>>
         ELSE IF \E i \in 1..Len(monitors) : NotPlane(monitors[i])
         THEN /\ rv_pc' = "invalid"
              /\ n2f_err' = "ValidationError: must be planar"
              /\ n2f_err_values' =
                    LET i == SetMin({k \in 1..Len(monitors) : NotPlane(monitors[k])})
                    IN <<monitors[i].name, monitors[i].size>>
              /\ UNCHANGED <<surfaces, origin>>
         ELSE LET surfs == [i \in 1..Len(monitors) |->
                              [monitor |-> monitors[i],
                               normal_dir |-> normal_dirs[i],
                               axis |-> Axis(monitors[i])]]
              IN /\ surfaces' = surfs
                 /\ origin' = SetOrigin(origin, surfs)
                 /\ rv_pc' = "ready"
                 /\ UNCHANGED <<n2f_err, n2f_err_values>>
    /\ UNCHANGED <<mvars, yvars, nvars, svars, avars, cache, calls, n_ops, got, idx_f,
                   idx_s, rad, n2f_data>>

CurrentsBodySkipMissing(surfs, sd) ==
    LET there == {i \in 1..Len(surfs) : sd[surfs[i].monitor.name].present}
        keys == {surfs[i].monitor.name : i \in there}
        last(nm) == SetMax({i \in there : surfs[i].monitor.name = nm})
    IN [raised |-> FALSE, invoked |-> Len(surfs), missing |-> "none",
        val |-> [nm \in keys |-> SurfaceCurrents(sd[nm].data, surfs[last(nm)])]]

\* The body of Near2Far.currents: compute_surface_currents for each surface in
\* turn, stored under the monitor's name; the first surface whose monitor has
\* no data raises.  invoked counts the calls of compute_surface_currents.
CurrentsBody(surfs, sd) ==
    LET absent == {i \in 1..Len(surfs) : ~sd[surfs[i].monitor.name].present}
        keys == {surfs[i].monitor.name : i \in 1..Len(surfs)}
        last(nm) == SetMax({i \in 1..Len(surfs) : surfs[i].monitor.name = nm})
    IN IF absent # {}
         THEN [raised |-> TRUE, invoked |-> SetMin(absent),
               missing |-> surfs[SetMin(absent)].monitor.name, val |-> <<>>]
         ELSE [raised |-> FALSE, invoked |-> Len(surfs), missing |-> "none",
               val |-> [nm \in keys |->
                          SurfaceCurrents(sd[nm].data, surfs[last(nm)])]]

CachedGetNoStore(cch, surfs, sd) ==
    LET body == CurrentsBody(surfs, sd)
    IN [raised |-> body.raised, invoked |-> body.invoked,
        missing |-> body.missing, val |-> body.val, cache |-> cch]

\* cached_property: the stored value if there is one; otherwise the body is
\* run and its value stored, and nothing is stored when the body raises.
CachedGet(cch, surfs, sd) ==
    IF cch.set
      THEN [raised |-> FALSE, invoked |-> 0, missing |-> "none",
            val |-> cch.val, cache |-> cch]
      ELSE LET body == CurrentsBody(surfs, sd)
           IN [raised |-> body.raised, invoked |-> body.invoked,
               missing |-> body.missing, val |-> body.val,
               cache |-> IF body.raised THEN cch
                         ELSE [set |-> TRUE, val |-> body.val]]

SelfCurrentsUncached(cch, surfs, sd) == CachedGetNoStore(cch, surfs, sd)

\* self.currents, a cached_property
SelfCurrents(cch, surfs, sd) == CachedGet(cch, surfs, sd)

Invoked(cnt, k) == [i \in DOMAIN cnt |-> IF i <= k THEN cnt[i] + 1 ELSE cnt[i]]

Live == {"ready", "returned", "raised"}

\* the caller reads n2f.currents, between calls of radiation_vectors
AccessCurrents ==
    /\ rv_pc \in Live
    /\ n_ops < MaxOps
    /\ n_ops' = n_ops + 1
    /\ rv_pc' = "ready"
    /\ n2f_data' = <<>>
    /\ LET get == SelfCurrents(cache, surfaces, sim_data)
       IN /\ cache' = get.cache
          /\ calls' = Invoked(calls, get.invoked)
          /\ IF get.raised
               THEN /\ got' = "raised"
                    /\ n2f_err' = "SetupError: No data for monitor"
                    /\ n2f_err_values' = <<get.missing>>
               ELSE /\ got' = "dict"
                    /\ n2f_err' = "none"
                    /\ n2f_err_values' = <<>>
    /\ UNCHANGED <<mvars, yvars, nvars, svars, avars, surfaces, origin, idx_f, idx_s,
                   rad>>

\* np.zeros((len(theta), len(phi), len(freqs)), dtype=complex)
Zeros(shape) == [shape |-> shape, at |-> [ix \in IdxSet(shape) |-> Zero]]

\* radiation_vectors, lines 540-546
RvStart ==
    /\ rv_pc \in Live
    /\ n_ops < MaxOps
    /\ n_ops' = n_ops + 1
    /\ IF theta.kind = "float" \/ phi.kind = "float"
         THEN /\ rv_pc' = "raised"
              /\ n2f_err' = "TypeError: object of type 'float' has no len()"
              /\ n2f_err_values' = <<>>
              /\ UNCHANGED <<rad, idx_f, idx_s>>
         ELSE /\ rad' = [name \in VectorNames |->
                           Zeros(<<Len(theta.vals), Len(phi.vals),
                                   Len(Frequencies(surfaces))>>)]
              /\ idx_f' = 1
              /\ idx_s' = 1
              /\ rv_pc' = "loop"
              /\ n2f_err' = "none"
              /\ n2f_err_values' = <<>>
    /\ n2f_data' = <<>>
    /\ UNCHANGED <<mvars, yvars, nvars, svars, avars, surfaces, origin, cache, calls, got>>

Range(seq) == {seq[i] : i \in DOMAIN seq}

SelectedNearest(cur, frequency) ==
    [found |-> TRUE,
     fi |-> IF frequency \in Range(cur.f)
              THEN CHOOSE i \in DOMAIN cur.f : cur.f[i] = frequency
              ELSE Len(cur.f)]

\* currents.sel(f=frequency): the position of frequency in the f coordinate;
\* the selection fails when the coordinate does not hold the frequency.
Selected(cur, frequency) ==
    IF frequency \in Range(cur.f)
      THEN [found |-> TRUE, fi |-> CHOOSE i \in DOMAIN cur.f : cur.f[i] = frequency]
      ELSE [found |-> FALSE, fi |-> 0]

AccumulatedEveryFrequency(arrs, k, part) ==
    [name \in DOMAIN arrs |->
       [shape |-> arrs[name].shape,
        at |-> [ix \in DOMAIN arrs[name].at |->
                  PolyAdd(arrs[name].at[ix], part[name].at[<<ix[1], ix[2]>>])]]]

\* N_theta[..., idx_f] += _N_th, and the same for the other three
Accumulated(arrs, k, part) ==
    [name \in DOMAIN arrs |->
       [shape |-> arrs[name].shape,
        at |-> [ix \in DOMAIN arrs[name].at |->
                  IF ix[3] = k
                    THEN PolyAdd(arrs[name].at[ix], part[name].at[<<ix[1], ix[2]>>])
                    ELSE arrs[name].at[ix]]]]

\* radiation_vectors, lines 548-556: one iteration of the inner loop
RvStep ==
    /\ rv_pc = "loop"
    /\ idx_f <= Len(Frequencies(surfaces))
    /\ LET freqs == Frequencies(surfaces)
           frequency == freqs[idx_f]
           surf == surfaces[idx_s]
           get == SelfCurrents(cache, surfaces, sim_data)
           sel == Selected(get.val[surf.monitor.name], frequency)
       IN /\ cache' = get.cache
          /\ calls' = Invoked(calls, get.invoked)
          /\ IF get.raised
               THEN /\ got' = "raised"
                    /\ rv_pc' = "raised"
                    /\ n2f_err' = "SetupError: No data for monitor"
                    /\ n2f_err_values' = <<get.missing>>
                    /\ UNCHANGED <<rad, idx_f, idx_s>>
               ELSE /\ got' = "dict"
                    /\ IF ~sel.found
                         THEN /\ rv_pc' = "raised"
                              /\ n2f_err' = "SetupError: Frequency not found"
                              /\ n2f_err_values' = <<frequency, surf.monitor.name>>
                              /\ UNCHANGED <<rad, idx_f, idx_s>>
                         ELSE /\ rad' = Accumulated(rad, idx_f - 1,
                                           RadiationVectorsForSurface(
                                               get.val[surf.monitor.name],
                                               sel.fi, surf, origin.v, theta.vals, phi.vals))
                              /\ idx_s' = IF idx_s < Len(surfaces) THEN idx_s + 1 ELSE 1
                              /\ idx_f' = IF idx_s < Len(surfaces) THEN idx_f
                                          ELSE idx_f + 1
                              /\ UNCHANGED <<rv_pc, n2f_err, n2f_err_values>>
    /\ UNCHANGED <<mvars, yvars, nvars, svars, avars, surfaces, origin, n_ops, n2f_data>>

\* radiation_vectors, lines 558-563
RvReturn ==
    /\ rv_pc = "loop"
    /\ idx_f > Len(Frequencies(surfaces))
    /\ n2f_data' = [name \in VectorNames |->
                      [values |-> rad[name], theta |-> theta.vals,
                       phi |-> phi.vals, f |-> Frequencies(surfaces)]]
    /\ rv_pc' = "returned"
    /\ UNCHANGED <<mvars, yvars, nvars, svars, avars, n2f_err, n2f_err_values, surfaces,
                   origin, cache, calls, n_ops, got, idx_f, idx_s, rad>>

(***************************************************************************)
(* Initial states and specifications.                                      *)
(***************************************************************************)
ResampleIdle ==
    /\ rs_args = <<>>
    /\ colocation_points = <<>>
    /\ rs_pc = "idle"
    /\ rs_err = "none"

OthersIdle == ResampleIdle /\ IntegratorIdle

ModesIdle ==
    /\ eps_xyz = <<>>
    /\ Nx = 0
    /\ Ny = 0
    /\ eps_tensor = <<>>
    /\ offd = FALSE
    /\ dmin_pmc = <<FALSE, FALSE>>
    /\ dmin_pml = <<FALSE, FALSE>>
    /\ target_neff_p = <<0, 1>>
    /\ solver = "none"
    /\ E = <<>>
    /\ H = <<>>
    /\ neff = <<>>
    /\ keff = <<>>
    /\ fields = <<>>
    /\ n_complex = <<>>
    /\ err = "none"
    /\ err_values = {}
    /\ caller_writes = {}

CurrentsIdle ==
    /\ surface = [axis |-> 0, normal_dir |-> "+"]
    /\ field_data = [k \in FieldKeys |-> 0]
    /\ currents = <<>>
    /\ n2f_pc = "idle"

PlaneMonitor == [type |-> "FieldMonitor", name |-> "m1", size |-> <<0, 1, 1>>]

SurfaceIdle ==
    /\ monitor = PlaneMonitor
    /\ normal_dir = "+"
    /\ surf_pc = "idle"
    /\ n2f_err = "none"
    /\ n2f_err_values = <<>>

NoData == [f |-> <<>>, coords |-> <<<<>>, <<>>, <<>>>>, at |-> <<>>]

\* No Near2Far has been built or used.
ProjectorFresh ==
    /\ surfaces = <<>>
    /\ cache = [set |-> FALSE, val |-> <<>>]
    /\ calls = <<0, 0>>
    /\ n_ops = 0
    /\ got = "nothing"
    /\ idx_f = 0
    /\ idx_s = 0
    /\ rad = <<>>
    /\ n2f_data = <<>>

ProjectorIdle ==
    /\ monitors = <<>>
    /\ normal_dirs = <<>>
    /\ sim_data = [nm \in Names |-> [present |-> FALSE, data |-> NoData]]
    /\ theta = [kind |-> "sequence", vals |-> <<"0">>]
    /\ phi = [kind |-> "sequence", vals |-> <<"0">>]
    /\ origin = [given |-> FALSE, v |-> <<0, 0, 0>>]
    /\ rv_pc = "idle"
    /\ ProjectorFresh

\* One guided mode, in the eigenvalue convention of the solver in use.
OneMode(ms) ==
    <<[val |-> IF ms.tilt THEN TensorialEigenvalue(<<1, 0>>)
               ELSE DiagonalEigenvalue(<<1, 0>>),
       prof |-> <<1, 0>>]>>

StraightSpec ==
    [sort_by |-> "largest_neff", tilt |-> FALSE, bend |-> FALSE, target_neff |-> GivenTarget]

\* Every kind of eps_cross and every pair of coords sizes.
InitArgs ==
    /\ pc = "start"
    /\ eps_cross \in EpsInputsAll
    /\ coords \in CoordSizes
    /\ symmetry = <<0, 0>>
    /\ mode_spec = StraightSpec
    /\ eigs = OneMode(mode_spec)
    /\ ModesIdle
    /\ OthersIdle
    /\ CurrentsIdle
    /\ SurfaceIdle
    /\ ProjectorIdle

\* Every grid shape, symmetry, bend and tilt, with well-formed arguments.
InitGrid ==
    /\ pc = "start"
    /\ eps_cross \in EpsInputsMatching
    /\ coords = <<eps_cross.items[1].shape[1] + 1, eps_cross.items[1].shape[2] + 1>>
    /\ symmetry \in Symmetries
    /\ mode_spec \in {ms \in ModeSpecs : ms.sort_by = "largest_neff"}
    /\ eigs = OneMode(mode_spec)
    /\ ModesIdle
    /\ OthersIdle
    /\ CurrentsIdle
    /\ SurfaceIdle
    /\ ProjectorIdle

\* Every answer of the eigensolver and every sort key, on a 2 x 1 grid.
InitSort ==
    /\ pc = "start"
    /\ eps_cross = TupleOf(<<Array2D(0, 2, 1), Array2D(1, 2, 1), Array2D(2, 2, 1)>>)
    /\ coords = <<3, 2>>
    /\ symmetry = <<0, 0>>
    /\ mode_spec \in {ms \in ModeSpecs : ~ms.bend /\ ms.target_neff.given}
    /\ eigs \in EigenAnswers(mode_spec, MaxModes)
    /\ ModesIdle
    /\ OthersIdle
    /\ CurrentsIdle
    /\ SurfaceIdle
    /\ ProjectorIdle

\* Answers of the eigensolver that hold an eigenvalue exactly at the shift sig,
\* alone or after another eigenvalue.
ShiftAnswers(ms, sig) ==
    {<<[val |-> sig, prof |-> <<1, 0>>]>>}
    \cup {<<[val |-> v, prof |-> <<0, 1>>], [val |-> sig, prof |-> <<1, 0>>]>> :
            v \in EigenvaluesFor(ms)}

\* target_neff 1, 2 or 3, straight or tilted, every sort key, and an
\* eigensolver that finds an eigenvalue at its shift.
InitShift ==
    /\ pc = "start"
    /\ eps_cross = TupleOf(<<Array2D(0, 2, 1), Array2D(1, 2, 1), Array2D(2, 2, 1)>>)
    /\ coords = <<3, 2>>
    /\ symmetry = <<0, 0>>
    /\ mode_spec \in [sort_by : SortKeys, tilt : BOOLEAN, bend : BOOLEAN,
                      target_neff : {[given |-> TRUE, v |-> t] : t \in 1..3}]
    /\ eigs \in ShiftAnswers(mode_spec,
                             GuessValue(TargetNeffP(eps_cross, mode_spec),
                                        OffDiagonal(mode_spec)))
    /\ ModesIdle
    /\ OthersIdle
    /\ CurrentsIdle
    /\ SurfaceIdle
    /\ ProjectorIdle

\* eps_cross as a (3, Nx, Ny) array, a single 2D array, a 3-tuple or a
\* 2-tuple; coords of the right sizes or not; every symmetry, bend and tilt.
InitCaller ==
    /\ pc = "start"
    /\ \E s \in Shapes2D :
          /\ eps_cross \in {NdArray(Array3D(s[1], s[2])),
                            NdArray(Array2D(0, s[1], s[2])),
                            TupleOf(<<Array2D(0, s[1], s[2]), Array2D(1, s[1], s[2]),
                                      Array2D(2, s[1], s[2])>>),
                            TupleOf(<<Array2D(0, s[1], s[2]), Array2D(1, s[1], s[2])>>)}
          /\ coords \in {<<s[1] + 1, s[2] + 1>>, <<s[1], s[2] + 1>>}
    /\ symmetry \in Symmetries
    /\ mode_spec \in {ms \in ModeSpecs : ms.sort_by = "largest_neff" /\ ms.target_neff.given}
    /\ eigs \in {<<>>, OneMode(mode_spec)}
    /\ ModesIdle
    /\ OthersIdle
    /\ CurrentsIdle
    /\ SurfaceIdle
    /\ ProjectorIdle

\* A monitor's centre and size along one tangential axis: inside the
\* simulation, as large as it, off-centre, larger than it, touching or
\* beyond its edge.
Extents == {<<0, 2>>, <<0, 4>>, <<-1, 2>>, <<0, 100>>, <<3, 2>>}

\* Every surface axis, pair of tangential extents, simulation size, points
\* per wavelength, highest frequency and index, with and without resampling.
InitResample ==
    /\ pc = "idle"
    /\ eps_cross = TupleOf(<<>>)
    /\ coords = <<0, 0>>
    /\ symmetry = <<0, 0>>
    /\ mode_spec = StraightSpec
    /\ eigs = <<>>
    /\ ModesIdle
    /\ CurrentsIdle
    /\ SurfaceIdle
    /\ ProjectorIdle
    /\ IntegratorIdle
    /\ \E axis \in 0..2, u \in Extents, v \in Extents, ss \in {2, 4} :
          LET uv == PopAxis(<<1, 2, 3>>, axis).tangent
              along(x) == [a \in 1..3 |-> IF a = uv[1] THEN u[x]
                                           ELSE IF a = uv[2] THEN v[x] ELSE 0]
          IN rs_args \in
               [axis : {axis},
                monitor : [center : {along(1)}, size : {along(2)},
                           freqs : {<<1>>, <<2, 1>>, <<1, 3, 2>>}],
                simulation : {[center |-> <<0, 0, 0>>, size |-> <<ss, ss, ss>>]},
                index_n : {1, 2},
                pts_per_wavelength : {1, 2, 10},
                resample : BOOLEAN,
                at_centers : {<<<<<<0, 1>>, <<1, 1>>>>, <<<<0, 1>>, <<1, 1>>>>,
                                <<<<0, 1>>, <<1, 1>>>>>>}]
    /\ colocation_points = <<>>
    /\ rs_pc = "args"
    /\ rs_err = "none"

InitCurrents ==
    /\ pc = "idle"
    /\ eps_cross = TupleOf(<<>>)
    /\ coords = <<0, 0>>
    /\ symmetry = <<0, 0>>
    /\ mode_spec = StraightSpec
    /\ eigs = <<>>
    /\ ModesIdle
    /\ OthersIdle
    /\ surface \in [axis : 0..2, normal_dir : {"+", "-"}]
    /\ field_data \in [FieldKeys -> (-MaxField)..MaxField]
    /\ currents = <<>>
    /\ n2f_pc = "fields"
    /\ SurfaceIdle
    /\ ProjectorIdle

\* Every size of a field monitor with extents 0, 1 or 2, and both directions.
InitSurface ==
    /\ pc = "idle"
    /\ eps_cross = TupleOf(<<>>)
    /\ coords = <<0, 0>>
    /\ symmetry = <<0, 0>>
    /\ mode_spec = StraightSpec
    /\ eigs = <<>>
    /\ ModesIdle
    /\ OthersIdle
    /\ CurrentsIdle
    /\ monitor \in [type : {"FieldMonitor"}, name : {"m1"}, size : MonitorSizes]
    /\ normal_dir \in {"+", "-"}
    /\ surf_pc = "args"
    /\ n2f_err = "none"
    /\ n2f_err_values = <<>>
    /\ ProjectorIdle

NoModes ==
    /\ pc = "idle"
    /\ eps_cross = TupleOf(<<>>)
    /\ coords = <<0, 0>>
    /\ symmetry = <<0, 0>>
    /\ mode_spec = StraightSpec
    /\ eigs = <<>>
    /\ ModesIdle
    /\ OthersIdle

FreqLists == {<<1>>, <<1, 2>>}

\* Field monitors normal to x, centred at the origin, named m1 or m2.
MonitorsX ==
    [type : {"FieldMonitor"}, name : Names, size : {<<0, 1, 1>>},
     freqs : FreqLists, center : {<<0, 0, 0>>}]

UnitAmp == [key \in FieldKeys |-> 1]

\* The data of a monitor normal to x, sampled at the frequencies fs.
DataX(fs) == FieldDataOf(fs, <<<<0>>, <<0, 1>>, <<0, 2>>>>, UnitAmp)

AngleArgs ==
    {[kind |-> "float", vals |-> <<"pi/2">>],
     [kind |-> "sequence", vals |-> <<"pi/2">>],
     [kind |-> "sequence", vals |-> <<"0", "pi/2">>]}

\* One or two surfaces, each monitor with or without data in sim_data and
\* with its own frequencies; angles given as a float or as a sequence.
InitProject ==
    /\ NoModes
    /\ CurrentsIdle
    /\ SurfaceIdle
    /\ monitors \in {<<a>> : a \in MonitorsX} \cup {<<a, b>> : a \in MonitorsX, b \in MonitorsX}
    /\ normal_dirs \in {<<"+">>, <<"+", "-">>}
    /\ sim_data \in [Names -> {[present |-> FALSE, data |-> NoData]}
                              \cup {[present |-> TRUE, data |-> DataX(fs)] :
                                       fs \in FreqLists}]
    /\ theta \in AngleArgs
    /\ phi \in {a \in AngleArgs : Len(a.vals) = 1}
    /\ origin = [given |-> FALSE, v |-> <<0, 0, 0>>]
    /\ rv_pc = "args"
    /\ ProjectorFresh

\* A planar field monitor normal to the given axis, and its data: two samples
\* along each tangential axis, unevenly spaced along the second.
MonitorOn(nm, axis) ==
    [type |-> "FieldMonitor", name |-> nm,
     size |-> [a \in 1..3 |-> IF a = axis + 1 THEN 0 ELSE 2],
     freqs |-> <<1, 2>>,
     center |-> [a \in 1..3 |-> IF a = axis + 1 THEN 2 ELSE 0]]

DataOn(axis, amp) ==
    FieldDataOf(<<1, 2>>,
                [a \in 1..3 |-> IF a = axis + 1 THEN <<2>>
                                ELSE IF a = PopAxis(<<1, 2, 3>>, axis).tangent[1]
                                  THEN <<0, 1>> ELSE <<0, 2>>],
                amp)

\* Field amplitudes per component, within -MaxField..MaxField and up.
Amps ==
    {[key \in FieldKeys |-> IF key[1] = "E" THEN 1 ELSE -MaxField],
     [key \in FieldKeys |-> IF key[2] = "y" THEN MaxField ELSE 1 + MaxField]}

\* One or two surfaces on any axes and sides with data at every frequency;
\* sequences of angles; the origin given or left to the default.
InitRadiate ==
    /\ NoModes
    /\ CurrentsIdle
    /\ SurfaceIdle
    /\ \E a \in 0..2, b \in 0..2, amp \in Amps :
          /\ b \in {a, (a + 1) % 3}
          /\ monitors \in {<<MonitorOn("m1", a)>>,
                            <<MonitorOn("m1", a), MonitorOn("m2", b)>>}
          /\ sim_data = [nm \in Names |->
                           [present |-> TRUE,
                            data |-> IF nm = "m1" THEN DataOn(a, amp)
                                     ELSE DataOn(b, UnitAmp)]]
    /\ normal_dirs \in {d \in {<<"+">>, <<"-">>, <<"+", "-">>, <<"-", "-">>} :
                           Len(d) = Len(monitors)}
    /\ theta \in {[kind |-> "sequence", vals |-> v] :
                     v \in {<<"0", "pi/2">>, <<"pi">>}}
    /\ phi \in {[kind |-> "sequence", vals |-> v] :
                   v \in {<<"0", "pi/2">>, <<"pi", "3pi/2">>}}
    /\ origin \in {[given |-> FALSE, v |-> <<0, 0, 0>>],
                    [given |-> TRUE, v |-> <<1, -1, 2>>]}
    /\ rv_pc = "args"
    /\ ProjectorFresh

\* Two surfaces on one axis, the second on the first one's monitor or on a
\* monitor of its own, facing the same way or opposite ways.
InitShared ==
    /\ NoModes
    /\ CurrentsIdle
    /\ SurfaceIdle
    /\ \E a \in 0..2, nm \in Names, amp \in Amps :
          /\ monitors = <<MonitorOn("m1", a), MonitorOn(nm, a)>>
          /\ sim_data = [n \in Names |->
                           [present |-> TRUE,
                            data |-> IF n = "m1" THEN DataOn(a, amp)
                                     ELSE DataOn(a, UnitAmp)]]
    /\ normal_dirs \in {<<"+", "-">>, <<"-", "+">>, <<"+", "+">>}
    /\ theta \in {[kind |-> "sequence", vals |-> v] :
                     v \in {<<"0", "pi/2">>, <<"pi">>}}
    /\ phi \in {[kind |-> "sequence", vals |-> v] :
                   v \in {<<"0", "pi/2">>, <<"pi", "3pi/2">>}}
    /\ origin = [given |-> FALSE, v |-> <<0, 0, 0>>]
    /\ rv_pc = "args"
    /\ ProjectorFresh

\* The orders in which the theta indices 0..n-1 can be taken one after another
Orders(n) ==
    {s \in [1..n -> 0..(n - 1)] : \A i \in 1..n, j \in 1..n : s[i] = s[j] => i = j}

\* The call for one surface on any axis with data at two frequencies, a
\* given origin, and angles that make the phase factors of the calls differ.
IntegratorArgs(workers, surfs, thetas, phis) ==
    /\ pc = "idle"
    /\ eps_cross = TupleOf(<<>>)
    /\ coords = <<0, 0>>
    /\ symmetry = <<0, 0>>
    /\ mode_spec = StraightSpec
    /\ eigs = <<>>
    /\ ModesIdle
    /\ CurrentsIdle
    /\ SurfaceIdle
    /\ ProjectorIdle
    /\ ResampleIdle
    /\ \E s \in surfs, fi \in 1..2, ths \in thetas, phs \in phis :
          LET surf == [monitor |-> MonitorOn("m1", s[1]), normal_dir |-> s[3],
                       axis |-> s[1]]
          IN ig = [cur |-> SurfaceCurrents(DataOn(s[1], s[2]), surf), fi |-> fi,
                   surf |-> surf, org |-> <<1, -1, 2>>, thetas |-> ths, phis |-> phs,
                   workers |-> workers]
    /\ ig_pc = "args"
    /\ phase = <<>>
    /\ JM = <<>>
    /\ written = <<>>
    /\ iters = [w \in 1..workers |-> NoIter]

\* The theta loop as the code runs it, one call after another, the indices in
\* any order (the code's is 0, 1, ...)
InitIntegrate ==
    /\ IntegratorArgs(1, {<<a, amp, d>> : a \in 0..2, amp \in Amps, d \in {"+", "-"}},
                      {<<"pi">>, <<"0", "pi/2">>, <<"pi/2", "0", "pi">>},
                      {<<"0">>, <<"0", "pi/2">>})
    /\ todo \in Orders(Len(ig.thetas))

\* The theta loop handed to two workers, the indices in the code's order
InitParallel ==
    /\ IntegratorArgs(2, {<<a, UnitAmp, "+">> : a \in 0..2},
                      {<<"0", "pi/2">>}, {<<"0">>, <<"0", "pi/2">>})
    /\ todo = [i \in 1..Len(ig.thetas) |-> i - 1]

NextProject ==
    \/ FromNearFieldMonitors
    \/ AccessCurrents
    \/ RvStart
    \/ RvStep
    \/ RvReturn

NextModes ==
    \/ UnpackEps
    \/ CheckCoords
    \/ BuildTensors
    \/ Transform
    \/ ImposePECx
    \/ ImposePECy
    \/ BuildDerivs
    \/ SolverEm
    \/ Reorder
    \/ Package

SpecArgs == InitArgs /\ [][NextModes]_vars
SpecGrid == InitGrid /\ [][NextModes]_vars
SpecSort == InitSort /\ [][NextModes]_vars
SpecShift == InitShift /\ [][NextModes]_vars
SpecCaller == InitCaller /\ [][NextModes]_vars
SpecCurrents == InitCurrents /\ [][FieldsToCurrentsStep]_vars
SpecSurface == InitSurface /\ [][ConstructSurface]_vars
SpecResample == InitResample /\ [][ResampleSurfaceCurrents]_vars
SpecProject == InitProject /\ [][NextProject]_vars
SpecRadiate == InitRadiate /\ [][NextProject]_vars
SpecShared == InitShared /\ [][NextProject]_vars
SpecIntegrate == InitIntegrate /\ [][NextIntegrate]_vars
SpecParallel == InitParallel /\ [][NextIntegrate]_vars

Init ==
    \/ InitArgs
    \/ InitGrid
    \/ InitSort
    \/ InitShift
    \/ InitCaller
    \/ InitCurrents
    \/ InitSurface
    \/ InitResample
    \/ InitProject
    \/ InitRadiate
    \/ InitShared
    \/ InitIntegrate
    \/ InitParallel
Next ==
    \/ NextModes
    \/ FieldsToCurrentsStep
    \/ ConstructSurface
    \/ ResampleSurfaceCurrents
    \/ NextProject
    \/ NextIntegrate
Spec == Init /\ [][Next]_vars

(***************************************************************************)
(* Properties.                                                             *)
(***************************************************************************)
Cross(a, b) ==
    <<a[2] * b[3] - a[3] * b[2], a[3] * b[1] - a[1] * b[3], a[1] * b[2] - a[2] * b[1]>>

UnitNormal(surf) ==
    [c \in 1..3 |-> IF c = surf.axis + 1
                    THEN (IF surf.normal_dir = "+" THEN 1 ELSE -1) ELSE 0]

FieldVector(fd, f) == <<fd[<<f, "x">>], fd[<<f, "y">>], fd[<<f, "z">>]>>

\* C1: for every normal axis and normal_dir, the tangential components of the
\* currents _fields_to_currents returns are those of J = n x H and
\* M = -(n x E), n the signed unit normal, whatever the field values.
C1_CurrentsAreCrossProducts ==
    n2f_pc = "currents" =>
        LET n == UnitNormal(surface)
            J == Cross(n, FieldVector(field_data, "H"))
            M == Cross(n, FieldVector(field_data, "E"))
        IN \A c \in 1..3 :
              c # surface.axis + 1 =>
                 /\ <<"J", AxisNames[c]>> \in DOMAIN currents
                 /\ <<"M", AxisNames[c]>> \in DOMAIN currents
                 /\ currents[<<"J", AxisNames[c]>>] = J[c]
                 /\ currents[<<"M", AxisNames[c]>>] = -M[c]

C1_Witness ==
    /\ n2f_pc = "currents"
    /\ surface = [axis |-> 1, normal_dir |-> "-"]
    /\ field_data[<<"H", "x">>] = 1
    /\ field_data[<<"E", "z">>] = -1
    /\ currents[<<"J", "z">>] = 1
    /\ currents[<<"M", "x">>] = -1

\* C2: with sort_by = largest_neff the real parts of the returned n_eff are
\* non-increasing in the mode index, whatever eigenvalues the solver returns,
\* in both regimes.
C2_NeffNonIncreasing ==
    (pc = "returned" /\ mode_spec.sort_by = "largest_neff") =>
        \A k \in 1..(Len(n_complex) - 1) :
            n_complex[k].re_num >= n_complex[k + 1].re_num

\* C3: every returned mode has Re(n_eff) >= 0, in both regimes.
C3_NeffNonNegative ==
    pc = "returned" => \A k \in 1..Len(n_complex) : n_complex[k].re_num >= 0

\* C4: E, H, neff and keff are reordered by one and the same permutation:
\* slot k of each of them, in the solver's outputs, after the re-sort and in
\* the returned values, derives from one and the same eigenpair.
C4_SamePermutation ==
    /\ pc \in {"solved", "sorted", "returned"} =>
          \A k \in 1..Len(E) :
              /\ Cardinality(E[k].ids) = 1
              /\ H[k].ids = E[k].ids
              /\ neff[k].ids = E[k].ids
              /\ keff[k].ids = E[k].ids
    /\ pc = "returned" =>
          \A k \in 1..Len(fields) :
              /\ Cardinality(fields[k].E.ids) = 1
              /\ fields[k].H.ids = fields[k].E.ids
              /\ n_complex[k].re_ids = fields[k].E.ids
              /\ n_complex[k].im_ids = fields[k].E.ids

C4_Witness ==
    /\ pc = "returned"
    /\ mode_spec.sort_by = "te_fraction"
    /\ solver = "diagonal"
    /\ Len(fields) = 2
    /\ eigs[1].val # eigs[2].val
    /\ DiagSortInds(eigs) = <<2, 1>>
    /\ fields[1].E.ids = {1}
    /\ n_complex[1].re_ids = {1}

FractionGeq(a, b) == a[1] * b[2] >= b[1] * a[2]

ColumnFraction(col, c) ==
    LET sx == SumA2(col.cells[0], Nx * Ny)
        sy == SumA2(col.cells[1], Nx * Ny)
    IN <<IF c = 0 THEN sx ELSE sy, sx + sy>>

\* C5: with sort_by = te_fraction (tm_fraction) the modes are ordered so that
\* sum|Ex|^2 / sum(|Ex|^2 + |Ey|^2) (with |Ey|^2 on top for tm_fraction),
\* computed on the solver-coordinate fields, is non-increasing in the mode
\* index.
C5_FractionNonIncreasing ==
    (pc \in {"sorted", "returned"} /\ mode_spec.sort_by # "largest_neff") =>
        LET c == IF mode_spec.sort_by = "te_fraction" THEN 0 ELSE 1
        IN \A k \in 1..(Len(E) - 1) :
              FractionGeq(ColumnFraction(E[k], c), ColumnFraction(E[k + 1], c))

C5_Witness ==
    /\ pc = "sorted"
    /\ mode_spec.sort_by = "tm_fraction"
    /\ Len(E) = 2
    /\ ColumnFraction(E[1], 1) = <<2, 2>>
    /\ ColumnFraction(E[2], 1) = <<2, 4>>
    /\ neff[1].v < neff[2].v

Is2DArray(ec) == ec.kind = "ndarray" /\ Len(ec.items[1].shape) = 2

\* C6: a single 2D array of shape (Nx, Ny) is accepted, serves as the
\* permittivity at the xx, yy and zz positions, and gives Nx and Ny as the
\* grid dimensions.
C6_Single2DArrayAccepted ==
    (Is2DArray(eps_cross) /\ pc # "start") =>
        /\ err \notin {"ValueError: eps_cross", "ValueError: eps_xx.shape"}
        /\ eps_xyz = <<eps_cross.items[1], eps_cross.items[1], eps_cross.items[1]>>
        /\ Nx = eps_cross.items[1].shape[1]
        /\ Ny = eps_cross.items[1].shape[2]

\* A 3-tuple of 2D arrays of one shape, or one array (2D as documented, or
\* the (3, Nx, Ny) stack of three 2D arrays).
WellFormedEps(ec) ==
    \/ ec.kind = "ndarray"
    \/ /\ ec.kind = "tuple"
       /\ Len(ec.items) = 3
       /\ ec.items[2].shape = ec.items[1].shape
       /\ ec.items[3].shape = ec.items[1].shape

\* C7: an eps_cross that is neither a single 2D array nor a 3-tuple of 2D
\* arrays of identical shapes makes compute_modes raise before any matrix is
\* assembled or solved, also when the three arrays have equal element counts.
C7_MalformedEpsRaises ==
    ~WellFormedEps(eps_cross) =>
        pc \notin {"assembled", "solved", "sorted", "returned"}

\* C8: coords[0].size != Nx + 1 or coords[1].size != Ny + 1 makes
\* compute_modes raise, before any coordinate transform, matrix assembly or
\* eigensolve.
C8_CoordsMismatchRaises ==
    (eps_xyz # <<>> /\ (coords[1] # Nx + 1 \/ coords[2] # Ny + 1)) =>
        /\ pc \in {"unpacked", "raised"}
        /\ pc = "raised" => err = "ValueError: coords"
        /\ eps_tensor = <<>>
        /\ solver = "none"
        /\ fields = <<>>

C8_Witness ==
    /\ pc = "raised"
    /\ err = "ValueError: coords"
    /\ WellFormedEps(eps_cross)
    /\ coords[1] = Nx + 1
    /\ coords[2] # Ny + 1

Cells == {<<i, j>> : i \in 0..(Nx - 1), j \in 0..(Ny - 1)}

PecRows(d) == {p \in DOMAIN eps_tensor[d] : eps_tensor[d][p] = PecEntry}

\* C9: cell (i, j) occupies position j * Nx + i of the flattened vectors: in
\* the flattened permittivity, in the index sets of the boundary PEC and in
\* the reshape of the fields.
C9_PositionColumnMajor ==
    /\ pc = "tensors" =>
          \A d \in 0..2 : \A c \in Cells :
              eps_tensor[d][c[2] * Nx + c[1]].val = eps_xyz[d + 1].at[c]
    /\ (pc = "pec_x" /\ symmetry[1] # 1) =>
          PecRows(1) = {c[2] * Nx + c[1] : c \in {c \in Cells : c[1] = 0}}
    /\ (pc = "pec_y" /\ symmetry[2] # 1 /\ Ny > 1) =>
          PecRows(0) = {c[2] * Nx + c[1] : c \in {c \in Cells : c[2] = 0}}
    /\ pc = "returned" =>
          \A k \in 1..Len(fields) : \A d \in 0..2 : \A c \in Cells :
              /\ fields[k].E.cells[d][c].row = c[2] * Nx + c[1]
              /\ fields[k].H.cells[d][c].row = c[2] * Nx + c[1]

\* C9 as amended: cell (i, j) occupies position i * Ny + j of the flattened
\* vectors, in the flattened permittivity, in the index sets of the boundary
\* PEC and in the reshape of the fields alike.
C9_PositionRowMajor ==
    /\ pc = "tensors" =>
          \A d \in 0..2 : \A c \in Cells :
              eps_tensor[d][c[1] * Ny + c[2]].val = eps_xyz[d + 1].at[c]
    /\ (pc = "pec_x" /\ symmetry[1] # 1) =>
          PecRows(1) = {c[1] * Ny + c[2] : c \in {c \in Cells : c[1] = 0}}
    /\ (pc = "pec_y" /\ symmetry[2] # 1 /\ Ny > 1) =>
          PecRows(0) = {c[1] * Ny + c[2] : c \in {c \in Cells : c[2] = 0}}
    /\ pc = "returned" =>
          \A k \in 1..Len(fields) : \A d \in 0..2 : \A c \in Cells :
              /\ fields[k].E.cells[d][c].row = c[1] * Ny + c[2]
              /\ fields[k].H.cells[d][c].row = c[1] * Ny + c[2]

C9_Witness ==
    /\ pc = "returned"
    /\ Nx = 2
    /\ Ny = 3
    /\ symmetry = <<0, 0>>
    /\ fields[1].E.cells[0][<<1, 0>>].row = 3
    /\ eps_tensor[1][2] = PecEntry
    /\ eps_tensor[0][3] = PecEntry

\* The tensor entry of component d at cell c before the PEC walls are imposed.
BeforePec(d, c) == [val |-> eps_xyz[d + 1].at[c], jac |-> JacOf(mode_spec)]

\* C10: with symmetry[0] != 1 the x-boundary imposition sets eps_yy and eps_zz
\* to PEC_VAL at exactly the cells with i = 0, leaves eps_xx untouched there
\* and alters no cell with i > 0; with symmetry[0] = 1 it alters nothing.  In
\* the tensor handed to the eigen-problem eps_yy is PEC_VAL exactly at i = 0.
C10_XminPec ==
    /\ pc = "pec_x" =>
          \A c \in Cells :
              LET p == c[1] * Ny + c[2]
              IN IF symmetry[1] # 1 /\ c[1] = 0
                   THEN /\ eps_tensor[1][p].val = PEC_VAL
                        /\ eps_tensor[2][p].val = PEC_VAL
                        /\ eps_tensor[0][p] = BeforePec(0, c)
                   ELSE \A d \in 0..2 : eps_tensor[d][p] = BeforePec(d, c)
    /\ pc \in {"pec_y", "assembled", "solved", "sorted", "returned"} =>
          \A c \in Cells :
              eps_tensor[1][c[1] * Ny + c[2]] =
                  IF symmetry[1] # 1 /\ c[1] = 0 THEN PecEntry ELSE BeforePec(1, c)

C10_Witness ==
    /\ pc = "pec_x"
    /\ symmetry[1] = -1
    /\ Nx = 2
    /\ Ny = 3
    /\ eps_tensor[1][2].val = PEC_VAL
    /\ eps_tensor[2][2].val = PEC_VAL
    /\ eps_tensor[1][3].val # PEC_VAL
    /\ eps_tensor[0][0].val # PEC_VAL

\* The tensor entry of component d at cell c once the x boundary is imposed.
AfterPecX(d, c) ==
    IF d \in {1, 2} /\ symmetry[1] # 1 /\ c[1] = 0 THEN PecEntry
    ELSE BeforePec(d, c)

C12_NoEigenmodesNamesTarget ==
    (pc \in {"solved", "raised"} /\ solver # "none" /\ Len(eigs) = 0) =>
        /\ pc = "raised"
        /\ err = "RuntimeError: Could not find any eigenmodes"
        /\ \E v \in err_values : v = mode_spec.target_neff.v
        /\ fields = <<>>
        /\ n_complex = <<>>

\* C13: a Near2FarSurface is constructed only from a field monitor whose size
\* has exactly one zero component; sizes with zero, two or three zero
\* components are rejected at construction; the axis of a constructed surface
\* is the index of the unique zero component.
C13_SurfaceIsPlanar ==
    /\ surf_pc = "constructed" =>
          /\ Count(monitor.size, 0) = 1
          /\ monitor.size[surface.axis + 1] = 0
          /\ \A a \in 0..2 : a # surface.axis => monitor.size[a + 1] # 0
    /\ (surf_pc \in {"constructed", "raised"} /\ Count(monitor.size, 0) # 1) =>
          /\ surf_pc = "raised"
          /\ n2f_err = "ValidationError: must be planar"

C13_Witness ==
    /\ surf_pc = "constructed"
    /\ monitor.size = <<2, 0, 1>>
    /\ surface.axis = 1

\* Every surface's monitor has data in sim_data.
AllPresent == \A i \in 1..Len(surfaces) : sim_data[surfaces[i].monitor.name].present

\* The name of the first surface whose monitor has no data.
FirstMissing ==
    surfaces[SetMin({i \in 1..Len(surfaces) :
                        ~sim_data[surfaces[i].monitor.name].present})].monitor.name

\* C14: when some surface's monitor has no data in sim_data, every access of
\* currents, by the caller or by radiation_vectors, raises SetupError naming
\* the first such monitor, wherever it stands in the surfaces tuple; nothing
\* is cached by the failed access, so that every later access fails alike, and
\* radiation_vectors returns no dataset.
C14_MissingMonitorRaises ==
    [][(rv_pc \in Live \cup {"loop"} /\ ~AllPresent) =>
          /\ ~cache'.set
          /\ rv_pc' # "returned"
          /\ n2f_data' = <<>>
          /\ got' # "dict"
          /\ (AccessCurrents \/ RvStep) =>
                /\ got' = "raised"
                /\ n2f_err' = "SetupError: No data for monitor"
                /\ n2f_err_values' = <<FirstMissing>>
          /\ RvStep => rv_pc' = "raised"]_vars

C14_Witness ==
    /\ rv_pc = "raised"
    /\ Len(surfaces) = 2
    /\ sim_data[surfaces[1].monitor.name].present
    /\ ~sim_data[surfaces[2].monitor.name].present
    /\ n_ops = 2
    /\ calls = <<2, 2>>
    /\ got = "raised"
    /\ ~cache.set
    /\ n2f_err = "SetupError: No data for monitor"
    /\ n2f_err_values = <<surfaces[2].monitor.name>>

\* The (frequency index, surface index) pairs, in the order of the loops,
\* whose frequency the current data of the surface does not hold.
AbsentPairs ==
    {q \in {<<k, i>> : k \in 1..Len(Frequencies(surfaces)), i \in 1..Len(surfaces)} :
        Frequencies(surfaces)[q[1]]
            \notin Range(sim_data[surfaces[q[2]].monitor.name].data.f)}

\* The first of them in the order of the loops.
FirstAbsent ==
    CHOOSE q \in AbsentPairs :
        \A r \in AbsentPairs : q[1] < r[1] \/ (q[1] = r[1] /\ q[2] <= r[2])

\* C15: when some frequency of the projector's list is absent from the current
\* data of some surface, radiation_vectors returns no dataset, and a call that
\* enters the loops ends in SetupError naming that frequency and monitor, at
\* the first such pair, after the pairs before it were integrated.
C15_MissingFrequencyRaises ==
    (rv_pc \in {"loop", "returned", "raised"} /\ AllPresent /\ AbsentPairs # {}) =>
        /\ rv_pc # "returned"
        /\ n2f_data = <<>>
        /\ rv_pc = "loop" =>
              idx_f < FirstAbsent[1]
              \/ (idx_f = FirstAbsent[1] /\ idx_s <= FirstAbsent[2])
        /\ (rv_pc = "raised" /\ theta.kind = "sequence" /\ phi.kind = "sequence") =>
              /\ n2f_err = "SetupError: Frequency not found"
              /\ <<idx_f, idx_s>> = FirstAbsent
              /\ n2f_err_values = <<Frequencies(surfaces)[idx_f],
                                    surfaces[idx_s].monitor.name>>

C15_Witness ==
    /\ rv_pc = "raised"
    /\ AllPresent
    /\ idx_f = 2
    /\ idx_s = 2
    /\ n2f_err = "SetupError: Frequency not found"
    /\ n2f_err_values = <<2, "m2">>
    /\ rad["Ntheta"].at[<<0, 0, 1>>] # Zero
    /\ n2f_data = <<>>

\* C16: every Near2Far that is constructed has surfaces whose monitors share
\* one freqs list.
C16_SurfacesShareFreqs ==
    rv_pc \in Live \cup {"loop"} =>
        \A i \in 1..Len(surfaces) :
            surfaces[i].monitor.freqs = surfaces[1].monitor.freqs

\* C17: constructing a Near2Far computes no currents, and once an access of
\* currents has succeeded compute_surface_currents has been invoked exactly
\* once per surface, however many accesses of currents and calls of
\* radiation_vectors follow.
C17_CurrentsComputedOnce ==
    /\ (rv_pc \in {"args", "invalid"} \/ n_ops = 0) =>
          /\ calls = <<0, 0>>
          /\ ~cache.set
          /\ got = "nothing"
    /\ got = "dict" <=> cache.set
    /\ got = "dict" =>
          \A i \in DOMAIN calls : calls[i] = IF i <= Len(surfaces) THEN 1 ELSE 0

C17_Witness ==
    /\ rv_pc = "returned"
    /\ n_ops = 2
    /\ Len(surfaces) = 2
    /\ surfaces[1].monitor.name # surfaces[2].monitor.name
    /\ Len(Frequencies(surfaces)) = 2
    /\ got = "dict"
    /\ calls = <<1, 1>>

\* len(theta), a float angle counting as length 1
AngleCount(a) == IF a.kind = "float" THEN 1 ELSE Len(a.vals)

\* C18: with theta and phi each a float or a sequence, radiation_vectors
\* returns a dataset with exactly the keys Ntheta, Nphi, Ltheta, Lphi, each of
\* shape (|theta|, |phi|, |freqs|), a float angle counting as length 1.
C18_FourArraysOfShape ==
    (rv_pc \in {"returned", "raised"} /\ AllPresent /\ AbsentPairs = {}) =>
        /\ rv_pc = "returned"
        /\ DOMAIN n2f_data = VectorNames
        /\ \A name \in VectorNames :
              n2f_data[name].values.shape =
                  <<AngleCount(theta), AngleCount(phi), Len(Frequencies(surfaces))>>

\* The currents of every surface's monitor, the monitors all having data.
CurrentsOf(sd) == CurrentsBody(surfaces, sd).val

\* The sum over the surfaces 1..n of their radiation vectors at frequency
\* number k of the projector, angles (i, j), from the monitor data sd with the
\* origin at org.
RECURSIVE SurfaceSum(_, _, _, _, _, _)
SurfaceSum(name, sd, org, ix, k, n) ==
    IF n = 0 THEN Zero
    ELSE LET cur == CurrentsOf(sd)[surfaces[n].monitor.name]
         IN PolyAdd(SurfaceSum(name, sd, org, ix, k, n - 1),
                    RadiationVectorsForSurface(
                        cur, Selected(cur, Frequencies(surfaces)[k]).fi,
                        surfaces[n], org, theta.vals, phi.vals)[name].at[ix])

\* The monitor data with every E and H sample multiplied by alpha.
ScaledData(sd, alpha) ==
    [nm \in DOMAIN sd |->
       [present |-> sd[nm].present,
        data |-> [f |-> sd[nm].data.f,
                  coords |-> sd[nm].data.coords,
                  at |-> [fi \in DOMAIN sd[nm].data.at |->
                            [p \in DOMAIN sd[nm].data.at[fi] |->
                               [key \in FieldKeys |->
                                  alpha * sd[nm].data.at[fi][p][key]]]]]]]

Alphas == {-2, 0, 3}

\* C19: with all monitored E and H values multiplied by alpha, each of the
\* four radiation vectors is alpha times what it was, at every angle and
\* frequency.
C19_LinearInFields ==
    rv_pc = "returned" =>
        \A alpha \in Alphas : \A name \in VectorNames :
            \A ix \in DOMAIN n2f_data[name].values.at :
                SurfaceSum(name, ScaledData(sim_data, alpha), origin.v,
                           <<ix[1], ix[2]>>, ix[3] + 1, Len(surfaces))
                = PolyScale(alpha, n2f_data[name].values.at[ix])

C19_Witness ==
    /\ rv_pc = "returned"
    /\ Len(surfaces) = 2
    /\ surfaces[1].axis = 1
    /\ surfaces[2].axis = 2
    /\ theta.vals = <<"0", "pi/2">>
    /\ n2f_data["Ntheta"].values.at[<<0, 1, 1>>] # Zero
    /\ n2f_data["Lphi"].values.at[<<1, 0, 0>>] # Zero

Dot(a, b) == a[1] * b[1] + a[2] * b[2] + a[3] * b[3]

Shifts == {<<1, 0, 0>>, <<0, -1, 2>>, <<1, 1, -1>>}

\* C20: with origin moved by D, every radiation vector at the angles
\* (theta, phi) and every frequency is what it was times
\* exp(1j * k * (khat . D)) = z^(-(khat . D)), one factor for all samples and
\* all four vectors.
C20_OriginShiftIsAPhase ==
    rv_pc = "returned" =>
        \A D \in Shifts : \A name \in VectorNames :
            \A ix \in DOMAIN n2f_data[name].values.at :
                SurfaceSum(name, sim_data, [a \in 1..3 |-> origin.v[a] + D[a]],
                           <<ix[1], ix[2]>>, ix[3] + 1, Len(surfaces))
                = PolyShift(n2f_data[name].values.at[ix],
                            -Dot(Khat(theta.vals[ix[1] + 1], phi.vals[ix[2] + 1]), D))

C20_Witness ==
    /\ rv_pc = "returned"
    /\ origin.v = <<1, -1, 2>>
    /\ theta.vals = <<"0", "pi/2">>
    /\ phi.vals = <<"0", "pi/2">>
    /\ surfaces[1].axis = 0
    /\ \E m \in DOMAIN n2f_data["Nphi"].values.at[<<1, 1, 0>>] : m # 0

\* The permittivity-based PEC was imposed on the xmin edge (a = 1: eps_yy at
\* the rows :Ny) or on the ymin edge (a = 2: eps_xx at the rows ::Ny).
PecApplied(a) ==
    \E p \in (IF a = 1 THEN SliceHead(Ny, Nx * Ny) ELSE SliceStep(Ny, Nx * Ny)) :
        eps_tensor[2 - a][p].val = PEC_VAL

\* C25: on each transverse axis the near-edge PML is on exactly when the
\* symmetry value is 0 and the near-edge PMC is on only when it is 1, so PMC
\* and PML are never both on at one near edge, nor PMC and the PEC values.
C25_NearEdgeExclusive ==
    pc \in {"assembled", "solved", "sorted", "returned"} =>
        \A a \in 1..2 :
            /\ dmin_pml[a] <=> symmetry[a] = 0
            /\ dmin_pmc[a] => symmetry[a] = 1
            /\ ~(dmin_pmc[a] /\ dmin_pml[a])
            /\ ~(dmin_pmc[a] /\ PecApplied(a))

C25_Witness ==
    /\ pc = "returned"
    /\ symmetry = <<1, 0>>
    /\ Ny = 2
    /\ dmin_pmc = <<TRUE, FALSE>>
    /\ dmin_pml = <<FALSE, TRUE>>
    /\ ~PecApplied(1)
    /\ PecApplied(2)

\* C26: solver_em uses the tensorial solver exactly when some off-diagonal
\* entry of the transformed tensors exceeds 1e-6, and with no bend and
\* angle_theta = 0 it uses the diagonal solver, for every permittivity input
\* and symmetry: the pec_val written at the near edges lands on the diagonal.
C26_DiagonalWhenUntransformed ==
    solver # "none" =>
        /\ solver = "tensorial" <=> offd
        /\ (~mode_spec.bend /\ ~mode_spec.tilt) => solver = "diagonal"

C26_Witness ==
    /\ pc = "returned"
    /\ ~mode_spec.bend
    /\ ~mode_spec.tilt
    /\ symmetry = <<-1, 0>>
    /\ PecApplied(1)
    /\ PecApplied(2)
    /\ solver = "diagonal"
    /\ <<Nx, Ny>> = <<2, 3>>

\* The eigenpairs the eigensolver returned exactly at its shift.
AtShift == {i \in 1..Len(eigs) : eigs[i].val = GuessValue(target_neff_p, offd)}

\* C24: the eigensolver's shift is that of target_neff / ||kp_to_k||, that is
\* -(target_neff / ||kp_to_k||) ** 2 for the diagonal solver and
\* 1j * target_neff / ||kp_to_k|| for the tensorial one, and a mode whose
\* eigenvalue is exactly the shift is returned with Re(n_eff) = target_neff.
C24_ShiftRoundTrip ==
    LET t == mode_spec.target_neff.v
        norm == NormKpToK(mode_spec)
        sigma == GuessValue(target_neff_p, offd)
    IN /\ pc \in {"assembled", "solved", "sorted", "returned"} =>
             IF offd THEN sigma[1] = 0 /\ sigma[2] * norm[1] = t * norm[2]
             ELSE sigma[2] = 0 /\ -sigma[1] * norm[1] * norm[1] = t * t * norm[2] * norm[2]
       /\ pc = "returned" =>
             \A k \in 1..Len(n_complex) :
                 n_complex[k].re_ids \subseteq AtShift =>
                     /\ n_complex[k].re_num = t * n_complex[k].re_den
                     /\ n_complex[k].im = 0

C24_Witness ==
    /\ pc = "returned"
    /\ mode_spec.tilt
    /\ mode_spec.target_neff.v = 3
    /\ solver = "tensorial"
    /\ Len(n_complex) = 2
    /\ n_complex[1].re_ids = {2}
    /\ AtShift = {2}
    /\ n_complex[1].re_num = 6
    /\ n_complex[1].re_den = 2

\* C30: no step of compute_modes, in a call that returns or in one that
\* raises, changes the caller's eps_cross or coords or stores into their
\* memory: the unpacked arrays of an ndarray eps_cross are views of it and are
\* only read, and pec_val and the transforms go to arrays the call allocated.
C30_InputsUntouched ==
    [][/\ eps_cross' = eps_cross
       /\ coords' = coords
       /\ caller_writes = {}
       /\ caller_writes' = {}]_vars

C30_Witness ==
    /\ pc = "returned"
    /\ eps_cross.kind = "ndarray"
    /\ mode_spec.bend
    /\ mode_spec.tilt
    /\ symmetry = <<0, -1>>
    /\ <<Nx, Ny>> = <<2, 2>>
    /\ PecApplied(1)
    /\ PecApplied(2)
    /\ caller_writes = {}

RatLeq(a, b) == a[1] * b[2] <= b[1] * a[2]

RatEq(a, b) == a[1] * b[2] = b[1] * a[2]

\* The resampled surfaces: the call returned and resample was on.
Resampled == rs_pc = "colocated" /\ rs_args.resample

RsStart(a) == Start(rs_args.monitor, rs_args.simulation, a)

RsStop(a) == Stop(rs_args.monitor, rs_args.simulation, a)

\* C21: with resample on, along each tangential axis every resampled
\* coordinate lies in [start, stop], and both start and stop are among the
\* coordinates whenever stop > start.
C21_GridCoversExtent ==
    Resampled =>
        \A a \in Tangential(rs_args.axis) :
            LET pts == colocation_points[a]
            IN /\ \A i \in DOMAIN pts :
                     RatLeq(<<RsStart(a), 1>>, pts[i]) /\ RatLeq(pts[i], <<RsStop(a), 1>>)
               /\ RsStop(a) > RsStart(a) =>
                     /\ \E i \in DOMAIN pts : RatEq(pts[i], <<RsStart(a), 1>>)
                     /\ \E i \in DOMAIN pts : RatEq(pts[i], <<RsStop(a), 1>>)

RsWavelength == Wavelength(rs_args.monitor.freqs, rs_args.index_n)

\* C22 as stated: with resample on, along each tangential axis of positive
\* extent adjacent sample points are at most lambda / pts_per_wavelength
\* apart, lambda the wavelength at the highest monitor frequency.
C22_SpacingAtMostLambdaOverPpw ==
    Resampled =>
        \A a \in Tangential(rs_args.axis) :
            LET pts == colocation_points[a]
            IN RsStop(a) > RsStart(a) =>
                 \A i \in 1..(Len(pts) - 1) :
                     (pts[i + 1][1] - pts[i][1]) * rs_args.pts_per_wavelength
                         <= RsWavelength * pts[i][2]

\* C22 amended: along each tangential axis of positive extent the grid has
\* n = ceil(pts_per_wavelength * (stop - start) / lambda) points, at least
\* pts_per_wavelength per wavelength of extent; adjacent points are
\* (stop - start) / (n - 1) apart, which is more than
\* lambda / pts_per_wavelength and at most n / (n - 1) times that.
C22_PointsPerWavelength ==
    Resampled =>
        \A a \in Tangential(rs_args.axis) :
            LET pts == colocation_points[a]
                n == Len(pts)
                ppw == rs_args.pts_per_wavelength
                size == RsStop(a) - RsStart(a)
            IN size > 0 =>
                 /\ n * RsWavelength >= ppw * size
                 /\ (n - 1) * RsWavelength < ppw * size
                 /\ \A i \in 1..(n - 1) :
                       LET d == pts[i + 1][1] - pts[i][1]
                       IN /\ pts[i][2] = n - 1
                          /\ d = size
                          /\ d * ppw > RsWavelength * pts[i][2]
                          /\ d * ppw * (n - 1) <= RsWavelength * n * pts[i][2]

C22_Witness ==
    /\ Resampled
    /\ rs_args.axis = 1
    /\ rs_args.pts_per_wavelength = 10
    /\ RsWavelength = 3
    /\ Len(colocation_points[1]) = 7
    /\ Len(colocation_points[3]) = 14
    /\ colocation_points[1][2] = <<-4, 6>>

\* C28: the currents radiation_vectors uses for a surface are those
\* compute_surface_currents produced for that surface, from its monitor's
\* data and its own normal_dir, also when two surfaces name one monitor.
C28_OwnCurrents ==
    (rv_pc \in {"loop", "returned"} /\ cache.set) =>
        \A s \in 1..Len(surfaces) :
            cache.val[surfaces[s].monitor.name]
                = SurfaceCurrents(sim_data[surfaces[s].monitor.name].data, surfaces[s])

\* The sum over the surfaces surfs[1..n] of the radiation vectors the
\* projector computes for each, at the k-th frequency and the angles ix, from
\* the monitor data sd.
RECURSIVE SumOver(_, _, _, _, _, _)
SumOver(surfs, sd, name, ix, k, n) ==
    IF n = 0 THEN Zero
    ELSE LET cur == CurrentsBody(surfs, sd).val[surfs[n].monitor.name]
         IN PolyAdd(SumOver(surfs, sd, name, ix, k, n - 1),
                    RadiationVectorsForSurface(
                        cur, Selected(cur, Frequencies(surfs)[k]).fi,
                        surfs[n], origin.v, theta.vals, phi.vals)[name].at[ix])

\* The monitor data with the samples of every frequency but `frequency`
\* multiplied by alpha.
OtherFrequenciesScaled(sd, frequency, alpha) ==
    [nm \in DOMAIN sd |->
       [present |-> sd[nm].present,
        data |-> [f |-> sd[nm].data.f,
                  coords |-> sd[nm].data.coords,
                  at |-> [fi \in DOMAIN sd[nm].data.at |->
                            [p \in DOMAIN sd[nm].data.at[fi] |->
                               [key \in FieldKeys |->
                                  IF sd[nm].data.f[fi] = frequency
                                    THEN sd[nm].data.at[fi][p][key]
                                    ELSE alpha * sd[nm].data.at[fi][p][key]]]]]]]

\* C23: at each frequency the returned radiation vectors are the sum over the
\* surfaces of the per-surface vectors at that frequency; with the surfaces
\* sharing one freqs list the result is the same for the surfaces tuple in
\* the opposite order, and the slice of a frequency is the same whatever the
\* data of the other frequencies.
C23_SumOverSurfaces ==
    (rv_pc = "returned"
     /\ \A s \in 1..Len(surfaces) : surfaces[s].monitor.freqs = Frequencies(surfaces)) =>
        \A name \in VectorNames : \A ix \in DOMAIN n2f_data[name].values.at :
            LET here == n2f_data[name].values.at[ix]
                ij == <<ix[1], ix[2]>>
                k == ix[3] + 1
                n == Len(surfaces)
            IN /\ here = SumOver(surfaces, sim_data, name, ij, k, n)
               /\ here = SumOver(Reversed(surfaces), sim_data, name, ij, k, n)
               /\ here = SumOver(surfaces,
                                 OtherFrequenciesScaled(sim_data, Frequencies(surfaces)[k], 0),
                                 name, ij, k, n)

\* J and M hold, at every entry, the integral for that entry's own angles:
\* what the calls of integrate_for_one_theta leave when run one by one in the
\* order 0, 1, ...
SequentialJM ==
    \A k \in Kinds : \A x \in DOMAIN JM[k] :
        JM[k][x] = Integrated(ig.cur, ig.fi, k, ig.surf, ig.org, ig.thetas[x[2] + 1],
                              ig.phis[x[3] + 1])[x[1]]

\* C27: with the theta indices processed one after another in any order, the
\* call for i_th stores only into J[:, i_th, :] and M[:, i_th, :], every
\* entry of the two tangential components has been stored exactly once at
\* the end (the normal component never), and the final J and M are the same
\* whatever the order.
C27_RowsDisjoint ==
    /\ [](ig_pc = "returned" =>
            /\ SequentialJM
            /\ \A k \in Kinds : \A x \in DOMAIN written[k] :
                  written[k][x] = IF x[1] = IgIdx.normal THEN 0 ELSE 1)
    /\ [][(ig_pc = "loop" /\ ig_pc' = "loop") =>
            \A k \in Kinds : \A x \in DOMAIN written[k] :
                (written'[k][x] # written[k][x] \/ JM'[k][x] # JM[k][x]) =>
                    \E w \in DOMAIN iters : iters[w].pc \in DOMAIN Stores
                                            /\ iters[w].i_th = x[2]]_vars

\* Three theta indices, index 0 processed last, and different values in the
\* rows of J.
C27_Witness ==
    /\ ig_pc = "returned"
    /\ Len(ig.thetas) = 3
    /\ Len(ig.phis) = 2
    /\ phase[1].by = 0
    /\ \E a \in 1..3 : /\ JM["J"][<<a, 0, 1>>] # Zero
                       /\ JM["J"][<<a, 0, 1>>] # JM["J"][<<a, 1, 1>>]
                       /\ JM["J"][<<a, 0, 1>>] # JM["J"][<<a, 0, 0>>]

\* C29: with two calls of integrate_for_one_theta interleaved between
\* statements, a call computes phase_ij from phase factors it stored itself,
\* and the final J and M are those of the sequential run.
C29_InterleavedAsSequential ==
    /\ \A w \in DOMAIN iters :
          iters[w].pc \in DOMAIN Stores => iters[w].from = {iters[w].i_th}
    /\ ig_pc = "returned" => SequentialJM

====
